---------------------------- MODULE Spec2Model ----------------------------
(***************************************************************************)
(* Model of the question generator of src/src/question_creation.py:        *)
(* the entity classifier and extractor, the reply parsers, and the         *)
(* orchestration loop of generate_all_mcqs with main's handling around it, *)
(* and of the question answerer of src/src/question_answer.py.             *)
(*                                                                         *)
(* JSON values are tagged records [t, s, m]; a text (a service reply, a    *)
(* file) is a sequence of tokens [c, s].  Python dicts keep their keys in  *)
(* insertion order, so an object is a sequence of members [k, v].          *)
(***************************************************************************)
EXTENDS Integers, Sequences, FiniteSets, TLC

VARIABLES
    json_data,     \* the value json.load returned for the input file
    pc,            \* position of the run: load, loop, invoke, wait, sleep, finish, returned, done, error
    i,             \* number of batch items whose for-loop iteration has started
    entities,      \* work items of the current item (extract_entities_from_json)
    j,             \* number of work items of the current item fully processed
    request,       \* the chat-completion request in flight (<<>> when none)
    all_mcqs,      \* the accumulated result list
    stdout,        \* the per-work-item lines printed by the loop
    sleeps,        \* number of time.sleep(1) calls made
    calls,         \* number of chat-completion calls made
    saved,         \* content written to the output file (<<>> when not written)
    result,        \* what generate_all_mcqs returned to main
    summary,       \* what main's summary printed (<<>> when it did not run)
    abort,         \* where an uncaught exception left generate_all_mcqs ("" when none)
    hist,          \* history: one entry per work item whose reply was handled
    origin,        \* history: for each element of all_mcqs, the work item it came from
    fn_in,         \* input of the pure function under check
    fn_out         \* its result (<<>> before it is applied)

vars == <<json_data, pc, i, entities, j, request, all_mcqs, stdout, sleeps,
          calls, saved, result, summary, abort, hist, origin, fn_in, fn_out>>

run_vars == <<json_data, pc, i, entities, j, request, all_mcqs, stdout, sleeps,
              calls, saved, result, summary, abort, hist, origin>>

fn_vars == <<fn_in, fn_out>>

---------------------------------------------------------------------------
(* Bounds of the model *)

\* longest input batch
MaxBatch == 2

\* most child techniques of one record
MaxChildren == 2

\* the longest list of records handed to save_mcqs_to_file on its own
MaxSaved == 2

---------------------------------------------------------------------------
(* JSON values, as json.load produces them *)

JStr(s) == [t |-> "str", s |-> s, m |-> <<>>]

JNum(s) == [t |-> "num", s |-> s, m |-> <<>>]

JNull == [t |-> "null", s |-> "null", m |-> <<>>]

JArr(elems) == [t |-> "arr", s |-> "", m |-> elems]

JObj(members) == [t |-> "obj", s |-> "", m |-> members]

Member(k, v) == [k |-> k, v |-> v]

Keys(obj) == [n \in 1..Len(obj.m) |-> obj.m[n].k]

\* key in dict
Has(obj, k) == \E n \in 1..Len(obj.m) : obj.m[n].k = k

\* dict[key], for a key that is present
Item(obj, k) == obj.m[CHOOSE n \in 1..Len(obj.m) : obj.m[n].k = k].v

\* dict.get(key, default)
Get(obj, k, default) == IF Has(obj, k) THEN Item(obj, k) ELSE default

\* list(dict.values())
Values(obj) == [n \in 1..Len(obj.m) |-> obj.m[n].v]

\* dict[key] = value while the object is being read: a repeated key keeps its place
DictSet(members, k, v) ==
    IF \E n \in 1..Len(members) : members[n].k = k
    THEN [n \in 1..Len(members) |->
             IF members[n].k = k THEN Member(k, v) ELSE members[n]]
    ELSE Append(members, Member(k, v))

\* str.lower() on the type strings of the model
Lower(s) ==
    CASE s \in {"Tactic", "TACTIC"} -> "tactic"
      [] s \in {"Technique", "TECHNIQUE"} -> "technique"
      [] s \in {"Procedure", "PROCEDURE"} -> "procedure"
      [] s = "Unspecified" -> "unspecified"
      [] OTHER -> s

\* truth value of a JSON value (bool(x))
Truthy(v) ==
    CASE v.t = "str" -> v.s # ""
      [] v.t = "num" -> v.s # "0"
      [] v.t = "null" -> FALSE
      [] OTHER -> Len(v.m) > 0

---------------------------------------------------------------------------
(* Texts: sequences of tokens *)

\* a structural character
P(ch) == [c |-> "p", s |-> ch]

\* a string literal
S(str) == [c |-> "str", s |-> str]

\* a number or null literal
L(lit) == [c |-> "lit", s |-> lit]

\* a run of whitespace
Ws == [c |-> "ws", s |-> " "]

\* a word of prose (or a code-fence marker)
W(word) == [c |-> "w", s |-> word]

\* the positions of a token in a text
Occurrences(text, tok) == {n \in 1..Len(text) : text[n] = tok}

\* the first position of the token at or after position n, 0 when there is none
FirstAt(text, tok, n) ==
    LET hits == {h \in Occurrences(text, tok) : h >= n} IN
    IF hits = {} THEN 0 ELSE CHOOSE h \in hits : \A g \in hits : h <= g

\* the last position of the token at or before position n, 0 when there is none
LastAt(text, tok, n) ==
    LET hits == {h \in Occurrences(text, tok) : h <= n} IN
    IF hits = {} THEN 0 ELSE CHOOSE h \in hits : \A g \in hits : h >= g

\* str.find(ch): the 0-based index of the first occurrence, -1 when there is none
Find(text, ch) == FirstAt(text, P(ch), 1) - 1

\* str.rfind(ch): the 0-based index of the last occurrence, -1 when there is none
RFind(text, ch) == LastAt(text, P(ch), Len(text)) - 1

\* text[start:end] for start, end >= 0
Slice(text, start, end) == SubSeq(text, start + 1, IF end > Len(text) THEN Len(text) ELSE end)

RECURSIVE LStrip(_)
LStrip(text) ==
    IF Len(text) > 0 /\ Head(text) = Ws THEN LStrip(Tail(text)) ELSE text

RECURSIVE RStrip(_)
RStrip(text) ==
    IF Len(text) > 0 /\ text[Len(text)] = Ws
    THEN RStrip(SubSeq(text, 1, Len(text) - 1))
    ELSE text

\* str.strip()
Strip(text) == RStrip(LStrip(text))

---------------------------------------------------------------------------
(* json.loads on a token sequence *)

NoParse == [ok |-> FALSE, v |-> JNull, n |-> 0]

Parsed(v, n) == [ok |-> TRUE, v |-> v, n |-> n]

RECURSIVE SkipWs(_, _)
SkipWs(text, n) ==
    IF n <= Len(text) /\ text[n] = Ws THEN SkipWs(text, n + 1) ELSE n

IsTok(text, n, tok) == n <= Len(text) /\ text[n] = tok

RECURSIVE ParseValue(_, _)
RECURSIVE ParseMember(_, _)
RECURSIVE ParseMembers(_, _, _)
RECURSIVE ParseElems(_, _, _)

\* a value starting at or after position n0
ParseValue(text, n0) ==
    LET n == SkipWs(text, n0) IN
    IF n > Len(text) THEN NoParse
    ELSE LET tk == text[n] IN
         CASE tk.c = "str" -> Parsed(JStr(tk.s), n + 1)
           [] tk.c = "lit" ->
                Parsed(IF tk.s = "null" THEN JNull ELSE JNum(tk.s), n + 1)
           [] tk = P("{") ->
                LET q == SkipWs(text, n + 1) IN
                IF IsTok(text, q, P("}"))
                THEN Parsed(JObj(<<>>), q + 1)
                ELSE ParseMembers(text, q, <<>>)
           [] tk = P("[") ->
                LET q == SkipWs(text, n + 1) IN
                IF IsTok(text, q, P("]"))
                THEN Parsed(JArr(<<>>), q + 1)
                ELSE ParseElems(text, q, <<>>)
           [] OTHER -> NoParse

\* one member of an object: "key" : value, and the position after it
ParseMember(text, n0) ==
    LET n == SkipWs(text, n0)
        c == SkipWs(text, n + 1)
    IN  IF n <= Len(text) /\ text[n].c = "str" /\ IsTok(text, c, P(":"))
        THEN LET val == ParseValue(text, c + 1) IN
             [ok |-> val.ok, k |-> text[n].s, v |-> val.v, n |-> SkipWs(text, val.n)]
        ELSE [ok |-> FALSE, k |-> "", v |-> JNull, n |-> 0]

\* the members of an object: "key" : value , ... }
ParseMembers(text, n0, acc) ==
    LET mem == ParseMember(text, n0) IN
    CASE ~mem.ok -> NoParse
      [] mem.ok /\ IsTok(text, mem.n, P("}")) ->
           Parsed(JObj(DictSet(acc, mem.k, mem.v)), mem.n + 1)
      [] mem.ok /\ IsTok(text, mem.n, P(",")) ->
           ParseMembers(text, mem.n + 1, DictSet(acc, mem.k, mem.v))
      [] OTHER -> NoParse

\* the elements of an array: value , ... ]
ParseElems(text, n0, acc) ==
    LET val == ParseValue(text, n0)
        e == SkipWs(text, val.n)
    IN  CASE ~val.ok -> NoParse
          [] val.ok /\ IsTok(text, e, P("]")) -> Parsed(JArr(Append(acc, val.v)), e + 1)
          [] val.ok /\ IsTok(text, e, P(",")) -> ParseElems(text, e + 1, Append(acc, val.v))
          [] OTHER -> NoParse

\* json.loads(text): one value and nothing but whitespace after it
json_loads(text) ==
    LET val == ParseValue(text, 1) IN
    IF val.ok /\ SkipWs(text, val.n) = Len(text) + 1
    THEN [ok |-> TRUE, v |-> val.v]
    ELSE [ok |-> FALSE, v |-> JNull]

---------------------------------------------------------------------------
(* json.dump: a value written out as text *)

RECURSIVE json_dumps(_)
RECURSIVE DumpMembers(_, _)
RECURSIVE DumpElems(_, _)

DumpMembers(members, n) ==
    IF n > Len(members) THEN <<>>
    ELSE (IF n > 1 THEN <<P(","), Ws>> ELSE <<>>)
         \o <<S(members[n].k), P(":"), Ws>> \o json_dumps(members[n].v)
         \o DumpMembers(members, n + 1)

DumpElems(elems, n) ==
    IF n > Len(elems) THEN <<>>
    ELSE (IF n > 1 THEN <<P(","), Ws>> ELSE <<>>)
         \o json_dumps(elems[n]) \o DumpElems(elems, n + 1)

json_dumps(v) ==
    CASE v.t = "str" -> <<S(v.s)>>
      [] v.t \in {"num", "null"} -> <<L(v.s)>>
      [] v.t = "obj" -> <<P("{")>> \o DumpMembers(v.m, 1) \o <<P("}")>>
      [] OTHER -> <<P("[")>> \o DumpElems(v.m, 1) \o <<P("]")>>

---------------------------------------------------------------------------
(* Results of Python calls: a returned value, or an exception raised *)

Raise == [raised |-> TRUE, v |-> <<>>]

Return(v) == [raised |-> FALSE, v |-> v]

---------------------------------------------------------------------------
(* Entity Classifier *)

\* the type strings the code recognises
EntityType == {"tactic", "technique", "procedure"}

\* identify_entity_type looking at the children before the declared type
identify_entity_type_by_structure(data) ==
    IF data.t # "obj" THEN Raise
    ELSE LET type_value == Get(data, "type", JStr("")) IN
         IF type_value.t # "str" THEN Raise
         ELSE IF /\ Has(data, "technique")
                 /\ Item(data, "technique").t = "arr"
                 /\ Len(Item(data, "technique").m) > 0
              THEN Return("tactic")
              ELSE IF Lower(type_value.s) \in EntityType
                   THEN Return(Lower(type_value.s))
                   ELSE Return("technique")

\* identify_entity_type: the kind, or an AttributeError when json_data has no
\* .get (not a dict) or its 'type' has no .lower (not a str)
identify_entity_type(data) ==
    IF data.t # "obj" THEN Raise
    ELSE LET type_value == Get(data, "type", JStr("")) IN
         IF type_value.t # "str" THEN Raise
         ELSE LET entity_type == Lower(type_value.s) IN
              IF entity_type = "tactic" THEN Return("tactic")
              ELSE IF entity_type = "procedure" THEN Return("procedure")
              ELSE IF entity_type = "technique" THEN Return("technique")
              ELSE IF /\ Has(data, "technique")
                      /\ Item(data, "technique").t = "arr"
                      /\ Len(Item(data, "technique").m) > 0
                   THEN Return("tactic")
                   ELSE Return("technique")

---------------------------------------------------------------------------
(* Entity Extractor *)

\* the id without its fallback to mitreId
IdOfNoFallback(data) == Get(data, "id", JStr(""))

\* json_data.get('id', json_data.get('mitreId', ''))
IdOf(data) == Get(data, "id", Get(data, "mitreId", JStr("")))

\* what a for loop over a JSON value iterates: the elements of a list, the keys
\* of a dict, the characters of a str; a number or None is not iterable
Iterate(v) ==
    CASE v.t = "arr" -> Return(v.m)
      [] v.t = "obj" -> Return([n \in 1..Len(v.m) |-> JStr(v.m[n].k)])
      [] v.t = "str" -> Return(IF v.s = "" THEN <<>> ELSE <<JStr(v.s)>>)
      [] OTHER -> Raise

\* technique_data taking the kind the child declares, when it declares one
technique_data_declared_type(technique, tactic_info) ==
    [entity_id |-> IdOf(technique),
     entity_title |-> Get(technique, "title", JStr("")),
     entity_type |-> IF Get(technique, "type", JNull).t = "str"
                     THEN Lower(Item(technique, "type").s) ELSE "technique",
     entity_description |-> Get(technique, "description", JStr("")),
     parent_tactic |-> tactic_info]

\* the work item built from one child technique of a tactic
technique_data(technique, tactic_info) ==
    [entity_id |-> IdOf(technique),
     entity_title |-> Get(technique, "title", JStr("")),
     entity_type |-> "technique",
     entity_description |-> Get(technique, "description", JStr("")),
     parent_tactic |-> tactic_info]

\* procedure_data keeping only the titles of the associated techniques
procedure_data_titles(data) ==
    [entity_id |-> IdOf(data),
     entity_title |-> Get(data, "title", JStr("")),
     entity_type |-> "procedure",
     entity_description |-> Get(data, "description", JStr("")),
     associated_techniques |->
         LET techs == Get(data, "technique", JArr(<<>>)) IN
         IF techs.t # "arr" THEN techs
         ELSE JArr([n \in 1..Len(techs.m) |->
                       IF techs.m[n].t = "obj"
                       THEN Get(techs.m[n], "title", JStr(""))
                       ELSE techs.m[n]])]

\* the single work item of a procedure record
procedure_data(data) ==
    [entity_id |-> IdOf(data),
     entity_title |-> Get(data, "title", JStr("")),
     entity_type |-> "procedure",
     entity_description |-> Get(data, "description", JStr("")),
     associated_techniques |-> Get(data, "technique", JArr(<<>>))]

\* single_technique_data that drops the record's nested children
single_technique_data_no_children(data) ==
    [entity_id |-> IdOf(data),
     entity_title |-> Get(data, "title", JStr("")),
     entity_type |-> "technique",
     entity_description |-> Get(data, "description", JStr("")),
     sub_techniques |-> JArr(<<>>)]

\* the single work item of a technique record
single_technique_data(data) ==
    [entity_id |-> IdOf(data),
     entity_title |-> Get(data, "title", JStr("")),
     entity_type |-> "technique",
     entity_description |-> Get(data, "description", JStr("")),
     sub_techniques |-> Get(data, "technique", JArr(<<>>))]

\* extract_entities_from_json treating a tactic without children as a technique
extract_childless_as_technique(data) ==
    LET entity_type == identify_entity_type(data) IN
    IF entity_type.raised THEN Raise
    ELSE IF entity_type.v = "tactic" THEN
        LET tactic_info == [tactic_title |-> Get(data, "title", JStr("")),
                            tactic_description |-> Get(data, "description", JStr("")),
                            tactic_id |-> IdOf(data)]
            children == Iterate(Get(data, "technique", JArr(<<>>)))
        IN  IF children.raised THEN Raise
            ELSE IF \E n \in 1..Len(children.v) : children.v[n].t # "obj" THEN Raise
            ELSE IF Len(children.v) = 0 THEN Return(<<single_technique_data(data)>>)
            ELSE Return([n \in 1..Len(children.v) |->
                            technique_data(children.v[n], tactic_info)])
    ELSE IF entity_type.v = "procedure" THEN Return(<<procedure_data(data)>>)
    ELSE Return(<<single_technique_data(data)>>)

\* extract_entities_from_json: the list of work items, or the exception raised
extract_entities_from_json(data) ==
    LET entity_type == identify_entity_type(data) IN
    IF entity_type.raised THEN Raise
    ELSE IF entity_type.v = "tactic" THEN
        LET tactic_info == [tactic_title |-> Get(data, "title", JStr("")),
                            tactic_description |-> Get(data, "description", JStr("")),
                            tactic_id |-> IdOf(data)]
            children == Iterate(Get(data, "technique", JArr(<<>>)))
        IN  IF children.raised THEN Raise
            ELSE IF \E n \in 1..Len(children.v) : children.v[n].t # "obj" THEN Raise
            ELSE Return([n \in 1..Len(children.v) |->
                            technique_data(children.v[n], tactic_info)])
    ELSE IF entity_type.v = "procedure" THEN Return(<<procedure_data(data)>>)
    ELSE Return(<<single_technique_data(data)>>)

---------------------------------------------------------------------------
(* Template Selector and Prompt Builder *)

create_tactic_user_prompt(entity_data) ==
    [tactic_title |-> entity_data.parent_tactic.tactic_title,
     tactic_description |-> entity_data.parent_tactic.tactic_description,
     entity_id |-> entity_data.entity_id,
     entity_title |-> entity_data.entity_title,
     entity_description |-> entity_data.entity_description]

create_technique_user_prompt(entity_data) ==
    [entity_id |-> entity_data.entity_id,
     entity_title |-> entity_data.entity_title,
     entity_description |-> entity_data.entity_description]

\* the "- title: description" lines of the associated techniques; tech.get
\* raises for an element that is not a dict
create_procedure_user_prompt(entity_data) ==
    LET techs == entity_data.associated_techniques
        elems == Iterate(techs)
    IN  IF ~Truthy(techs)
        THEN Return([entity_id |-> entity_data.entity_id,
                     entity_title |-> entity_data.entity_title,
                     entity_description |-> entity_data.entity_description,
                     techniques_info |-> <<>>])
        ELSE IF elems.raised \/ \E n \in 1..Len(elems.v) : elems.v[n].t # "obj"
        THEN Raise
        ELSE Return([entity_id |-> entity_data.entity_id,
                     entity_title |-> entity_data.entity_title,
                     entity_description |-> entity_data.entity_description,
                     techniques_info |->
                         [n \in 1..Len(elems.v) |->
                             [title |-> Get(elems.v[n], "title", JStr("")),
                              description |-> Get(elems.v[n], "description", JStr(""))]]])

\* the system prompt chosen by the kind alone
system_prompt_by_kind(entity_data) ==
    IF entity_data.entity_type = "technique" THEN "technique"
    ELSE IF entity_data.entity_type = "procedure" THEN "procedure"
    ELSE "unknown"

\* the if/elif chain of generate_mcq_for_entity: the system prompt chosen,
\* "unknown" for the branch that raises ValueError("Unknown entity type")
system_prompt_for(entity_data) ==
    IF entity_data.entity_type = "technique" /\ "parent_tactic" \in DOMAIN entity_data
    THEN "tactic"
    ELSE IF entity_data.entity_type = "technique" THEN "technique"
    ELSE IF entity_data.entity_type = "procedure" THEN "procedure"
    ELSE "unknown"

\* the first half of generate_mcq_for_entity: the system prompt chosen and the
\* user prompt rendered, or the exception raised before the try block
select_prompt(entity_data) ==
    LET system_prompt == system_prompt_for(entity_data) IN
    CASE system_prompt = "tactic" ->
           Return([system |-> "tactic", user |-> create_tactic_user_prompt(entity_data)])
      [] system_prompt = "technique" ->
           Return([system |-> "technique", user |-> create_technique_user_prompt(entity_data)])
      [] system_prompt = "procedure" ->
           LET user == create_procedure_user_prompt(entity_data) IN
           IF user.raised THEN Raise
           ELSE Return([system |-> "procedure", user |-> user.v])
      [] OTHER -> Raise

---------------------------------------------------------------------------
(* Response Parser *)

\* the keys read with question_data[...]: a missing one is a KeyError
RequiredFields == {"question_type", "question", "options", "correct_answer", "explanation"}

\* technique_question that always takes the work item's id and title
technique_question_own_id(question_data, entity_data) ==
    IF question_data.t # "obj" THEN Raise
    ELSE IF \E f \in RequiredFields : ~Has(question_data, f) THEN Raise
    ELSE IF Item(question_data, "options").t # "obj" THEN Raise
    ELSE Return([entity_id |-> entity_data.entity_id,
                 entity_title |-> entity_data.entity_title,
                 entity_type |-> entity_data.entity_type,
                 question_type |-> Item(question_data, "question_type"),
                 question |-> Item(question_data, "question"),
                 options |-> Values(Item(question_data, "options")),
                 correct_answer |-> Item(question_data, "correct_answer"),
                 explanation |-> Item(question_data, "explanation")])

\* MCQQuestion(...) for a technique reply, or the exception raised building it
technique_question(question_data, entity_data) ==
    IF question_data.t # "obj" THEN Raise
    ELSE IF \E f \in RequiredFields : ~Has(question_data, f) THEN Raise
    ELSE IF Item(question_data, "options").t # "obj" THEN Raise
    ELSE Return([entity_id |-> Get(question_data, "technique_id", entity_data.entity_id),
                 entity_title |-> Get(question_data, "technique_title", entity_data.entity_title),
                 entity_type |-> entity_data.entity_type,
                 question_type |-> Item(question_data, "question_type"),
                 question |-> Item(question_data, "question"),
                 options |-> Values(Item(question_data, "options")),
                 correct_answer |-> Item(question_data, "correct_answer"),
                 explanation |-> Item(question_data, "explanation")])

\* _parse_technique_response handing the whole reply to json.loads
parse_technique_response_unsliced(response_text, entity_data) ==
    LET loaded == json_loads(response_text) IN
    IF ~loaded.ok THEN Raise
    ELSE technique_question(loaded.v, entity_data)

\* _parse_technique_response: one MCQQuestion, or the exception raised
parse_technique_response(response_text, entity_data) ==
    LET start_idx == Find(response_text, "{")
        end_idx == RFind(response_text, "}") + 1
    IN  IF start_idx # -1 /\ end_idx # -1
        THEN LET json_str == Slice(response_text, start_idx, end_idx)
                 loaded == json_loads(json_str)
             IN  IF ~loaded.ok THEN Raise
                 ELSE technique_question(loaded.v, entity_data)
        ELSE Raise

\* procedure_question reading every member with a default
procedure_question_defaults(question_data, entity_data) ==
    IF question_data.t # "obj" THEN Raise
    ELSE IF Get(question_data, "options", JObj(<<>>)).t # "obj" THEN Raise
    ELSE Return([entity_id |-> Get(question_data, "procedure_id", entity_data.entity_id),
                 entity_title |-> Get(question_data, "procedure_title", entity_data.entity_title),
                 entity_type |-> entity_data.entity_type,
                 question_type |-> Get(question_data, "question_type", JStr("")),
                 question |-> Get(question_data, "question", JStr("")),
                 options |-> Values(Get(question_data, "options", JObj(<<>>))),
                 correct_answer |-> Get(question_data, "correct_answer", JStr("")),
                 explanation |-> Get(question_data, "explanation", JStr(""))])

\* MCQQuestion(...) for one element of a procedure reply
procedure_question(question_data, entity_data) ==
    IF question_data.t # "obj" THEN Raise
    ELSE IF \E f \in RequiredFields : ~Has(question_data, f) THEN Raise
    ELSE IF Item(question_data, "options").t # "obj" THEN Raise
    ELSE Return([entity_id |-> Get(question_data, "procedure_id", entity_data.entity_id),
                 entity_title |-> Get(question_data, "procedure_title", entity_data.entity_title),
                 entity_type |-> entity_data.entity_type,
                 question_type |-> Item(question_data, "question_type"),
                 question |-> Item(question_data, "question"),
                 options |-> Values(Item(question_data, "options")),
                 correct_answer |-> Item(question_data, "correct_answer"),
                 explanation |-> Item(question_data, "explanation")])

\* _parse_procedure_response returning [] where it should raise
parse_procedure_response_quiet(response_text, entity_data) ==
    LET start_idx == Find(response_text, "[")
        end_idx == RFind(response_text, "]") + 1
        loaded == json_loads(Slice(response_text, start_idx, end_idx))
    IN  IF start_idx = -1 \/ end_idx = 0 \/ ~loaded.ok THEN Return(<<>>)
        ELSE LET questions_data == Iterate(loaded.v) IN
             IF questions_data.raised THEN Raise
             ELSE LET mcqs == [n \in 1..Len(questions_data.v) |->
                                  procedure_question(questions_data.v[n], entity_data)]
                  IN  IF \E n \in 1..Len(mcqs) : mcqs[n].raised THEN Raise
                      ELSE Return([n \in 1..Len(mcqs) |-> mcqs[n].v])

\* _parse_procedure_response leaving out the elements it cannot build
parse_procedure_response_skipping(response_text, entity_data) ==
    LET start_idx == Find(response_text, "[")
        end_idx == RFind(response_text, "]") + 1
    IN  IF start_idx # -1 /\ end_idx # -1
        THEN LET json_str == Slice(response_text, start_idx, end_idx)
                 loaded == json_loads(json_str)
             IN  IF ~loaded.ok THEN Raise
                 ELSE LET questions_data == Iterate(loaded.v) IN
                      IF questions_data.raised THEN Raise
                      ELSE LET mcqs == [n \in 1..Len(questions_data.v) |->
                                           procedure_question(questions_data.v[n], entity_data)]
                               built == SelectSeq(mcqs, LAMBDA mcq : ~mcq.raised)
                           IN  Return([n \in 1..Len(built) |-> built[n].v])
        ELSE Raise

\* _parse_procedure_response: the list of MCQQuestions, or the exception raised
parse_procedure_response(response_text, entity_data) ==
    LET start_idx == Find(response_text, "[")
        end_idx == RFind(response_text, "]") + 1
    IN  IF start_idx # -1 /\ end_idx # -1
        THEN LET json_str == Slice(response_text, start_idx, end_idx)
                 loaded == json_loads(json_str)
             IN  IF ~loaded.ok THEN Raise
                 ELSE LET questions_data == Iterate(loaded.v) IN
                      IF questions_data.raised THEN Raise
                      ELSE LET mcqs == [n \in 1..Len(questions_data.v) |->
                                           procedure_question(questions_data.v[n], entity_data)]
                           IN  IF \E n \in 1..Len(mcqs) : mcqs[n].raised THEN Raise
                               ELSE Return([n \in 1..Len(mcqs) |-> mcqs[n].v])
        ELSE Raise

---------------------------------------------------------------------------
(* Generation Invoker *)

\* what the chat-completion call can do: raise, or return a message whose
\* content is a text or None
ServiceRaise == [kind |-> "raise", text |-> <<>>]

ServiceNone == [kind |-> "none", text |-> <<>>]

ServiceText(text) == [kind |-> "text", text |-> text]

\* handle_response without its except clause: the exception leaves the function
handle_response_uncaught(entity_data, outcome) ==
    IF outcome.kind # "text" THEN Raise
    ELSE LET response_text == Strip(outcome.text) IN
         IF entity_data.entity_type = "procedure"
         THEN parse_procedure_response(response_text, entity_data)
         ELSE LET parsed == parse_technique_response(response_text, entity_data) IN
              IF parsed.raised THEN Raise ELSE Return(<<parsed.v>>)

\* the try block of generate_mcq_for_entity: the parsed questions are returned,
\* and [] for every exception raised by the call or the parse (except Exception)
handle_response(entity_data, outcome) ==
    IF outcome.kind # "text" THEN Return(<<>>)
    ELSE LET response_text == Strip(outcome.text) IN
         IF entity_data.entity_type = "procedure"
         THEN LET parsed == parse_procedure_response(response_text, entity_data) IN
              IF parsed.raised THEN Return(<<>>) ELSE Return(parsed.v)
         ELSE LET parsed == parse_technique_response(response_text, entity_data) IN
              IF parsed.raised THEN Return(<<>>) ELSE Return(<<parsed.v>>)

---------------------------------------------------------------------------
(* Persistence and main's report *)

\* saved_options without the '' of the missing positions
saved_options_unpadded(options) ==
    JObj([n \in 1..(IF Len(options) > 4 THEN 4 ELSE Len(options)) |->
             Member(<<"A", "B", "C", "D">>[n], options[n])])

\* the value of 'options' in the saved dict: positions 0..3 under A..D
saved_options(options) ==
    JObj(<<Member("A", IF Len(options) > 0 THEN options[1] ELSE JStr("")),
           Member("B", IF Len(options) > 1 THEN options[2] ELSE JStr("")),
           Member("C", IF Len(options) > 2 THEN options[3] ELSE JStr("")),
           Member("D", IF Len(options) > 3 THEN options[4] ELSE JStr(""))>>)

mcq_dict(mcq) ==
    JObj(<<Member("entity_id", mcq.entity_id),
           Member("entity_title", mcq.entity_title),
           Member("entity_type", JStr(mcq.entity_type)),
           Member("question_type", mcq.question_type),
           Member("question", mcq.question),
           Member("options", saved_options(mcq.options)),
           Member("correct_answer", mcq.correct_answer),
           Member("explanation", mcq.explanation)>>)

\* save_mcqs_to_file: the text written to the output file
save_mcqs_to_file(mcqs) ==
    json_dumps(JArr([n \in 1..Len(mcqs) |-> mcq_dict(mcqs[n])]))

\* the saved file read back as a list of records: one record per dict, its
\* options the values of the saved options object; an exception when the text
\* is not a list of such dicts
load_mcqs(text) ==
    LET loaded == json_loads(text)
        Fields == {"entity_id", "entity_title", "entity_type", "question_type",
                   "question", "options", "correct_answer", "explanation"}
    IN  IF ~loaded.ok \/ loaded.v.t # "arr" THEN Raise
        ELSE IF \E n \in 1..Len(loaded.v.m) :
                   \/ loaded.v.m[n].t # "obj"
                   \/ \E f \in Fields : ~Has(loaded.v.m[n], f)
                   \/ Item(loaded.v.m[n], "options").t # "obj"
                   \/ Item(loaded.v.m[n], "entity_type").t # "str"
             THEN Raise
             ELSE Return([n \in 1..Len(loaded.v.m) |->
                            [entity_id |-> Item(loaded.v.m[n], "entity_id"),
                             entity_title |-> Item(loaded.v.m[n], "entity_title"),
                             entity_type |-> Item(loaded.v.m[n], "entity_type").s,
                             question_type |-> Item(loaded.v.m[n], "question_type"),
                             question |-> Item(loaded.v.m[n], "question"),
                             options |-> Values(Item(loaded.v.m[n], "options")),
                             correct_answer |-> Item(loaded.v.m[n], "correct_answer"),
                             explanation |-> Item(loaded.v.m[n], "explanation")]])

\* counts[key] = counts.get(key, 0) + 1 over a list of keys, in first-seen order
RECURSIVE CountBy(_, _)
CountBy(keys, acc) ==
    IF keys = <<>> THEN acc
    ELSE LET key == Head(keys) IN
         CountBy(Tail(keys),
                 IF \E n \in 1..Len(acc) : acc[n].key = key
                 THEN [n \in 1..Len(acc) |->
                          IF acc[n].key = key
                          THEN [key |-> key, count |-> acc[n].count + 1]
                          ELSE acc[n]]
                 ELSE Append(acc, [key |-> key, count |-> 1]))

\* print_mcqs indexes options_labels = ['A','B','C','D'] by option position
print_mcqs_raises(mcqs) == \E n \in 1..Len(mcqs) : Len(mcqs[n].options) > 4

\* a list or a dict is not hashable and cannot be a key of question_types
summary_raises(mcqs) == \E n \in 1..Len(mcqs) : mcqs[n].question_type.t \in {"arr", "obj"}

\* the summary main prints: the total and the counts by question and entity type
main_summary(mcqs) ==
    [total |-> Len(mcqs),
     question_types |-> CountBy([n \in 1..Len(mcqs) |-> mcqs[n].question_type], <<>>),
     entity_types |-> CountBy([n \in 1..Len(mcqs) |-> mcqs[n].entity_type], <<>>)]

---------------------------------------------------------------------------
(* Inputs of a run *)

Child(id, title) ==
    JObj(<<Member("id", JStr(id)), Member("title", JStr(title)),
           Member("type", JStr("technique")), Member("description", JStr("d-" \o id))>>)

\* a tactic holding two techniques
TacticRecord ==
    JObj(<<Member("id", JStr("TA1")), Member("title", JStr("Initial Access")),
           Member("type", JStr("tactic")), Member("description", JStr("goal")),
           Member("technique", JArr(<<Child("T1", "first"), Child("T2", "second")>>))>>)

\* a procedure with one associated technique
ProcedureRecord ==
    JObj(<<Member("id", JStr("P1")), Member("title", JStr("CAN Message Injection")),
           Member("type", JStr("procedure")), Member("description", JStr("replay")),
           Member("technique", JArr(<<Child("T3", "third")>>))>>)

\* a technique on its own
TechniqueRecord ==
    JObj(<<Member("id", JStr("T9")), Member("title", JStr("standalone")),
           Member("type", JStr("technique")), Member("description", JStr("method"))>>)

\* an element that is no mapping at all
JunkRecord == JStr("junk")

\* a tactic whose list of techniques is empty
EmptyTacticRecord ==
    JObj(<<Member("id", JStr("TA2")), Member("title", JStr("Impact")),
           Member("type", JStr("tactic")), Member("description", JStr("goal")),
           Member("technique", JArr(<<>>))>>)

\* a tactic without a list of techniques
BareTacticRecord ==
    JObj(<<Member("id", JStr("TA3")), Member("title", JStr("Discovery")),
           Member("type", JStr("Tactic")), Member("description", JStr("goal"))>>)

RunRecords ==
    {TacticRecord, ProcedureRecord, TechniqueRecord, JunkRecord,
     EmptyTacticRecord, BareTacticRecord}

RECURSIVE SeqsUpTo(_, _)
SeqsUpTo(set, n) ==
    IF n = 0 THEN {<<>>}
    ELSE LET shorter == SeqsUpTo(set, n - 1) IN
         shorter \cup {Append(q, x) : q \in {r \in shorter : Len(r) = n - 1}, x \in set}

\* the 3-record batches of the scenarios: every call can fail for any record,
\* an element in the middle is no mapping, all three kinds in one batch
ScenarioBatches ==
    {<<TechniqueRecord, TechniqueRecord, TechniqueRecord>>,
     <<TechniqueRecord, JunkRecord, TechniqueRecord>>,
     <<TacticRecord, ProcedureRecord, TechniqueRecord>>}

\* the file holds one record, or a list of records: every list of at most
\* MaxBatch records, and the scenario batches
RunInputs ==
    RunRecords
    \cup {JArr(batch) : batch \in SeqsUpTo(RunRecords, MaxBatch) \cup ScenarioBatches}

---------------------------------------------------------------------------
(* Replies of the generation service *)

Options(labels) == JObj([n \in 1..Len(labels) |-> Member(labels[n], JStr("text-" \o labels[n]))])

\* a question object; id_members are the echoed identifier members, if any
Question(id_members, style, options, answer) ==
    JObj(id_members \o
         <<Member("question_type", JStr(style)), Member("question", JStr("Q?")),
           Member("options", options), Member("correct_answer", JStr(answer)),
           Member("explanation", JStr("because"))>>)

ABCD == <<"A", "B", "C", "D">>

\* prose and a code fence around a payload
Fenced(payload) ==
    <<W("Here is the result:"), Ws, W("fence-json"), Ws>>
    \o payload \o <<Ws, W("fence"), Ws, W("Done.")>>

\* a single fenced question echoing the technique id
TechniqueReply ==
    Fenced(json_dumps(Question(<<Member("technique_id", JStr("X1"))>>,
                               "Factual Recall MCQ", Options(ABCD), "B")))

\* a fenced array of two questions; the second names an option that is not there
ProcedureReply ==
    Fenced(json_dumps(JArr(<<Question(<<Member("procedure_id", JStr("Y1"))>>,
                                      "Scenario-Based", Options(ABCD), "C"),
                             Question(<<>>, "Diagnostic MCQ", Options(ABCD), "E")>>)))

\* what the service does for one call of a run
RunOutcomes == {"raise", "technique reply", "procedure reply"}

ServiceOutcome(name) ==
    CASE name = "technique reply" -> ServiceText(TechniqueReply)
      [] name = "procedure reply" -> ServiceText(ProcedureReply)
      [] OTHER -> ServiceRaise

---------------------------------------------------------------------------
(* Orchestrator: generate_all_mcqs, called by main *)

\* isinstance(json_data, list) that is never true
IsBatchNever == FALSE

\* isinstance(json_data, list)
IsBatch == json_data.t = "arr"

NoResult == [returned |-> FALSE, mcqs |-> <<>>]

\* extend that puts the new elements in front
extend_front(list, more) == more \o list

\* extend that keeps only the new elements
extend_replacing(list, more) == more

\* list.extend
extend(list, more) == list \o more

\* where the loops go once the current item's work items are exhausted
AfterItem(done) ==
    IF IsBatch /\ done < Len(json_data.m) THEN "loop" ELSE "finish"

Init ==
    /\ json_data \in RunInputs
    /\ pc = "load"
    /\ i = 0
    /\ entities = <<>>
    /\ j = 0
    /\ request = <<>>
    /\ all_mcqs = <<>>
    /\ stdout = <<>>
    /\ sleeps = 0
    /\ calls = 0
    /\ saved = <<>>
    /\ result = NoResult
    /\ summary = <<>>
    /\ abort = ""
    /\ hist = <<>>
    /\ origin = <<>>
    /\ fn_in = <<>>
    /\ fn_out = <<>>

\* an exception leaves generate_all_mcqs and reaches main's except clause
Abort(where) ==
    /\ pc' = "error"
    /\ abort' = where

\* json.load, and for a single object extract_entities_from_json on it
Load ==
    /\ pc = "load"
    /\ IF IsBatch
       THEN /\ pc' = "loop"
            /\ UNCHANGED <<entities, abort>>
       ELSE \E found \in {extract_entities_from_json(json_data)} :
            IF found.raised
            THEN /\ Abort("extract")
                 /\ UNCHANGED entities
            ELSE /\ entities' = found.v
                 /\ pc' = IF Len(found.v) = 0 THEN "finish" ELSE "invoke"
                 /\ UNCHANGED abort
    /\ UNCHANGED <<json_data, i, j, request, all_mcqs, stdout, sleeps, calls,
                   saved, result, summary, hist, origin, fn_vars>>

\* the head of the for loop over the items of a batch
NextItem ==
    /\ pc = "loop"
    /\ i < Len(json_data.m)
    /\ i' = i + 1
    /\ j' = 0
    /\ \E found \in {extract_entities_from_json(json_data.m[i + 1])} :
       IF found.raised
       THEN /\ Abort("extract")
            /\ UNCHANGED entities
       ELSE /\ entities' = found.v
            /\ pc' = IF Len(found.v) = 0 THEN AfterItem(i + 1) ELSE "invoke"
            /\ UNCHANGED abort
    /\ UNCHANGED <<json_data, request, all_mcqs, stdout, sleeps, calls,
                   saved, result, summary, hist, origin, fn_vars>>

\* Invoke that starts the call for the next work item while one is in flight
InvokePipelined ==
    /\ pc \in {"invoke", "wait"}
    /\ j + 1 + Len(request) <= Len(entities)
    /\ \E prompt \in {select_prompt(entities[j + 1 + Len(request)])} :
       IF prompt.raised
       THEN /\ Abort("prompt")
            /\ UNCHANGED <<request, calls>>
       ELSE /\ request' = Append(request, prompt.v)
            /\ calls' = calls + 1
            /\ pc' = "wait"
            /\ UNCHANGED abort
    /\ UNCHANGED <<json_data, i, entities, j, all_mcqs, stdout, sleeps,
                   saved, result, summary, hist, origin, fn_vars>>

\* generate_mcq_for_entity up to the chat-completion call
Invoke ==
    /\ pc = "invoke"
    /\ \E prompt \in {select_prompt(entities[j + 1])} :
       IF prompt.raised
       THEN /\ Abort("prompt")
            /\ UNCHANGED <<request, calls>>
       ELSE /\ request' = <<prompt.v>>
            /\ calls' = calls + 1
            /\ pc' = "wait"
            /\ UNCHANGED abort
    /\ UNCHANGED <<json_data, i, entities, j, all_mcqs, stdout, sleeps,
                   saved, result, summary, hist, origin, fn_vars>>

\* Reply that also writes the output file after every work item
ReplyAndSave ==
    /\ pc = "wait"
    /\ \E outcome \in RunOutcomes :
       \E got \in {handle_response(entities[j + 1], ServiceOutcome(outcome))} :
         /\ all_mcqs' = IF Len(got.v) > 0 THEN extend(all_mcqs, got.v) ELSE all_mcqs
         /\ origin' = IF Len(got.v) > 0
                      THEN extend(origin, [n \in 1..Len(got.v) |->
                                              [item |-> i, entity |-> j + 1, pos |-> n]])
                      ELSE origin
         /\ stdout' = Append(stdout, IF Len(got.v) > 0
                                     THEN [line |-> "generated", count |-> Len(got.v)]
                                     ELSE [line |-> "failed", count |-> 0])
         /\ hist' = Append(hist, [item |-> i, entity |-> j + 1,
                                  entity_data |-> entities[j + 1],
                                  outcome |-> outcome])
         /\ saved' = <<save_mcqs_to_file(all_mcqs')>>
         /\ pc' = "sleep"
    /\ request' = <<>>
    /\ UNCHANGED <<json_data, i, entities, j, sleeps, calls, result,
                   summary, abort, fn_vars>>

\* the call returns or raises; the reply is parsed and the questions collected
Reply ==
    /\ pc = "wait"
    /\ \E outcome \in RunOutcomes :
       \E got \in {handle_response(entities[j + 1], ServiceOutcome(outcome))} :
         IF got.raised
         THEN /\ Abort("generate")
              /\ UNCHANGED <<all_mcqs, origin, stdout, hist>>
         ELSE /\ all_mcqs' = IF Len(got.v) > 0 THEN extend(all_mcqs, got.v) ELSE all_mcqs
              /\ origin' = IF Len(got.v) > 0
                           THEN extend(origin, [n \in 1..Len(got.v) |->
                                                   [item |-> i, entity |-> j + 1, pos |-> n]])
                           ELSE origin
              /\ stdout' = Append(stdout, IF Len(got.v) > 0
                                          THEN [line |-> "generated", count |-> Len(got.v)]
                                          ELSE [line |-> "failed", count |-> 0])
              /\ hist' = Append(hist, [item |-> i, entity |-> j + 1,
                                       entity_data |-> entities[j + 1],
                                       outcome |-> outcome])
              /\ pc' = "sleep"
              /\ UNCHANGED abort
    /\ request' = <<>>
    /\ UNCHANGED <<json_data, i, entities, j, sleeps, calls, saved, result,
                   summary, fn_vars>>

\* Cooldown that sends a work item that yielded nothing through the call once more
CooldownRetry ==
    /\ pc = "sleep"
    /\ sleeps' = sleeps + 1
    /\ \E again \in {/\ stdout[Len(stdout)].line = "failed"
                      /\ Cardinality({n \in 1..Len(hist) :
                             hist[n].item = i /\ hist[n].entity = j + 1}) = 1} :
         /\ j' = IF again THEN j ELSE j + 1
         /\ pc' = IF again \/ j + 1 < Len(entities) THEN "invoke" ELSE AfterItem(i)
    /\ UNCHANGED <<json_data, i, entities, request, all_mcqs, stdout, calls,
                   saved, result, summary, abort, hist, origin, fn_vars>>

\* Cooldown that sleeps only after a work item that yielded questions
CooldownOnSuccess ==
    /\ pc = "sleep"
    /\ sleeps' = IF stdout[Len(stdout)].line = "generated" THEN sleeps + 1 ELSE sleeps
    /\ j' = j + 1
    /\ pc' = IF j + 1 < Len(entities) THEN "invoke" ELSE AfterItem(i)
    /\ UNCHANGED <<json_data, i, entities, request, all_mcqs, stdout, calls,
                   saved, result, summary, abort, hist, origin, fn_vars>>

\* time.sleep(1), then the next work item, the next item or the end of the loops
Cooldown ==
    /\ pc = "sleep"
    /\ sleeps' = sleeps + 1
    /\ j' = j + 1
    /\ pc' = IF j + 1 < Len(entities) THEN "invoke" ELSE AfterItem(i)
    /\ UNCHANGED <<json_data, i, entities, request, all_mcqs, stdout, calls,
                   saved, result, summary, abort, hist, origin, fn_vars>>

\* the end of generate_all_mcqs: the total is printed, the file saved, the list returned
Finish ==
    /\ \/ pc = "finish"
       \/ pc = "loop" /\ i = Len(json_data.m)
    /\ stdout' = Append(stdout, [line |-> "total", count |-> Len(all_mcqs)])
    /\ saved' = <<save_mcqs_to_file(all_mcqs)>>
    /\ result' = [returned |-> TRUE, mcqs |-> all_mcqs]
    /\ pc' = "returned"
    /\ UNCHANGED <<json_data, i, entities, j, request, all_mcqs, sleeps, calls,
                   summary, abort, hist, origin, fn_vars>>

\* main after the call: print_mcqs and the summary statistics
Report ==
    /\ pc = "returned"
    /\ IF print_mcqs_raises(result.mcqs) \/ summary_raises(result.mcqs)
       THEN /\ Abort("report")
            /\ UNCHANGED summary
       ELSE /\ summary' = <<main_summary(result.mcqs)>>
            /\ pc' = "done"
            /\ UNCHANGED abort
    /\ UNCHANGED <<json_data, i, entities, j, request, all_mcqs, stdout, sleeps,
                   calls, saved, result, hist, origin, fn_vars>>

Next == Load \/ NextItem \/ Invoke \/ Reply \/ Cooldown \/ Finish \/ Report

Spec == Init /\ [][Next]_vars

---------------------------------------------------------------------------
(* The pure functions applied to bounded sets of inputs *)

\* a child that has a mitreId and no id
ChildMitre(id, title) ==
    JObj(<<Member("mitreId", JStr(id)), Member("title", JStr(title)),
           Member("description", JStr("d-" \o id))>>)

\* a child that declares itself a procedure
ChildProcedure(id, title) ==
    JObj(<<Member("id", JStr(id)), Member("title", JStr(title)),
           Member("type", JStr("procedure")), Member("description", JStr("d-" \o id))>>)

FnChildren == {Child("T1", "first"), ChildMitre("M2", "second"), ChildProcedure("P3", "third")}

IdMembers ==
    {<<>>, <<Member("id", JStr("R1"))>>, <<Member("mitreId", JStr("M1"))>>,
     <<Member("mitreId", JStr("M1")), Member("id", JStr("R1"))>>}

TypeStrings == {"tactic", "TACTIC", "Technique", "procedure", "Procedure", "unspecified", ""}

TypeMembers ==
    {<<>>, <<Member("type", JNull)>>, <<Member("type", JNum("1"))>>}
    \cup {<<Member("type", JStr(str))>> : str \in TypeStrings}

ChildMembers ==
    {<<>>, <<Member("technique", JNull)>>, <<Member("technique", JArr(<<JStr("T1")>>))>>}
    \cup {<<Member("technique", JArr(kids))>> : kids \in SeqsUpTo(FnChildren, MaxChildren)}

\* records of every shape: with and without id, type and children
FnRecords ==
    {JObj(idm \o <<Member("title", JStr("title")), Member("description", JStr("text"))>>
          \o tm \o cm) : idm \in IdMembers, tm \in TypeMembers, cm \in ChildMembers}
    \cup {JunkRecord, JNull, JArr(<<>>)}

\* the three shapes of work item
FnEntities ==
    {extract_entities_from_json(TacticRecord).v[1],
     extract_entities_from_json(TechniqueRecord).v[1],
     extract_entities_from_json(ProcedureRecord).v[1]}

\* a question object with no echoed identifier
PlainQuestion == Question(<<>>, "Factual Recall MCQ", Options(ABCD), "A")

\* an object without the member of that key
Without(obj, key) == JObj(SelectSeq(obj.m, LAMBDA mem : mem.k # key))

\* what a reply may hold between its prose: questions, arrays of them, other JSON
PayloadValues ==
    {Question(<<Member("technique_id", JStr("X1"))>>, "Factual Recall MCQ", Options(ABCD), "B"),
     Question(<<>>, "Scenario-Based", Options(ABCD), "E"),
     Question(<<Member("technique_title", JStr("echoed"))>>, "Diagnostic MCQ",
              Options(<<"A", "B", "C">>), "A"),
     JObj(<<Member("question", JStr("Q?"))>>),
     JObj(<<Member("question_type", JStr("Diagnostic MCQ")), Member("question", JStr("Q?")),
            Member("options", JArr(<<JStr("a"), JStr("b")>>)),
            Member("correct_answer", JStr("A")), Member("explanation", JStr("because"))>>),
     JArr(<<Question(<<Member("procedure_id", JStr("Y1"))>>, "Scenario-Based", Options(ABCD), "C"),
            Question(<<>>, "Diagnostic MCQ", Options(ABCD), "D")>>),
     JArr(<<Question(<<>>, "Factual Recall MCQ", Options(ABCD), "A"), JNum("1")>>),
     JArr(<<Question(<<>>, "Factual Recall MCQ", Options(ABCD), "A")>>),
     JArr(<<JNum("1")>>),
     JArr(<<>>),
     JStr("sorry")}
    \cup {Question(<<Member("entity_type", JStr("tactic"))>>, "Scenario-Based", Options(ABCD), "D"),
          JArr(<<Question(<<Member("entity_type", JStr("tactic"))>>,
                          "Scenario-Based", Options(ABCD), "D")>>)}
    \cup {Without(PlainQuestion, f) : f \in RequiredFields}
    \cup {JArr(<<PlainQuestion, Without(PlainQuestion, f)>>) : f \in RequiredFields}

\* text before the payload: nothing, prose and a fence, prose holding brackets
Prefixes ==
    {<<>>,
     <<Ws, W("Here is the result:"), Ws, W("fence-json"), Ws>>,
     <<W("Use"), P("{"), W("braces"), P("}"), Ws>>,
     <<W("See"), P("["), L("1"), P("]"), Ws>>}

\* text after the payload
Suffixes ==
    {<<>>,
     <<Ws, W("fence"), Ws, W("Done."), Ws>>,
     <<Ws, W("as"), P("{"), W("noted"), P("}")>>,
     <<Ws, W("see"), P("["), L("2"), P("]")>>}

\* the payload as the service wrote it, whole or cut short by the token limit
Written(value, cut) ==
    LET text == json_dumps(value) IN SubSeq(text, 1, Len(text) - cut)

ReplyText(in) == in.prefix \o Written(in.value, in.cut) \o in.suffix

\* questions with four options under two labellings, with three and with five
SavedQuestions ==
    {Question(<<Member("technique_id", JStr("X1"))>>, "Factual Recall MCQ", Options(ABCD), "B"),
     Question(<<>>, "Scenario-Based", Options(<<"1", "2", "3", "4">>), "2"),
     Question(<<>>, "Diagnostic MCQ", Options(<<"A", "B", "C">>), "A"),
     Question(<<>>, "Diagnostic MCQ", Options(<<"A", "B", "C", "D", "E">>), "E")}

\* the records the parser emits for them
SavedRecords ==
    {parse_technique_response(json_dumps(q), extract_entities_from_json(TechniqueRecord).v[1]).v :
        q \in SavedQuestions}

---------------------------------------------------------------------------
(* Question answerer: src/src/question_answer.py *)

\* longest reply of the service to the answerer, in characters
MaxReply == 2

\* longest list of questions given to process_questions
MaxQuestions == 2

\* the characters of the replies, one string per code point: a lower-case and
\* an upper-case Latin letter, a digit, a space, LATIN SMALL LETTER SHARP S
\* and a CJK ideograph
Chars == {"a", "B", "1", " ", "U+00DF", "U+4E2D"}

\* str.isspace() of one character
isspace(c) == c = " "

\* str.isalpha() of one character: true of every Unicode letter
isalpha(c) == c \in {"a", "B", "U+00DF", "U+4E2D"}

\* str.upper() of one character, as a string: the sharp s has the two-letter
\* upper case SS, an ideograph has no case and is returned as it is
upper(c) ==
    CASE c = "a" -> <<"A">>
      [] c = "U+00DF" -> <<"S", "S">>
      [] OTHER -> <<c>>

\* str.strip() of a string of characters
str_strip(s) ==
    LET kept == {n \in 1..Len(s) : ~isspace(s[n])} IN
    IF kept = {} THEN <<>>
    ELSE SubSeq(s, CHOOSE n \in kept : \A k \in kept : n <= k,
                   CHOOSE n \in kept : \A k \in kept : k <= n)

UNKNOWN == <<"U", "N", "K", "N", "O", "W", "N">>

ERROR == <<"E", "R", "R", "O", "R">>

\* what a chat-completion call of the answerer can do: raise, return no
\* choice, return a message without content, return a content
CompletionRaise == [kind |-> "raise", content |-> <<>>]

CompletionNoChoice == [kind |-> "no choice", content |-> <<>>]

CompletionNoContent == [kind |-> "no content", content |-> <<>>]

CompletionText(content) == [kind |-> "text", content |-> content]

\* get_answer_from_model, given what the call did
get_answer_from_model(outcome) ==
    IF outcome.kind # "text" THEN Return(ERROR)
    ELSE LET answer == str_strip(outcome.content)
             letters == {n \in 1..Len(answer) : isalpha(answer[n])} IN
         IF Len(answer) = 1 /\ isalpha(answer[1]) THEN Return(upper(answer[1]))
         ELSE IF letters = {} THEN Return(UNKNOWN)
         ELSE Return(upper(answer[CHOOSE n \in letters : \A k \in letters : n <= k]))

\* the line the except clause of get_answer_from_model prints
answer_error_printed(outcome) == outcome.kind # "text"

\* a Python string of characters as a JSON value
PyStr(chars) == [t |-> "str", s |-> chars, m |-> <<>>]

\* the models process_questions asks, its default and main's choice
Models == <<"gpt-4o", "gpt-4o-mini">>

\* question_data["question"], question_data["options"] or options.items() raises
question_raises(question_data) ==
    \/ question_data.t # "obj"
    \/ ~Has(question_data, "question")
    \/ ~Has(question_data, "options")
    \/ Item(question_data, "options").t # "obj"

\* the answers dict of one question after its first n models were asked
RECURSIVE answers_of(_, _, _)
answers_of(models, outcomes, n) ==
    IF n = 0 THEN <<>>
    ELSE DictSet(answers_of(models, outcomes, n - 1), models[n],
                 PyStr(get_answer_from_model(outcomes[n]).v))

\* process_questions: outcomes are what the calls did, in call order
process_questions(questions, models, outcomes) ==
    LET per == Len(models)
        bad == {n \in 1..Len(questions) : question_raises(questions[n])}
        done == IF bad = {} THEN Len(questions)
                ELSE (CHOOSE n \in bad : \A k \in bad : n <= k) - 1 IN
    [raised |-> bad # {},
     v |-> IF bad # {} THEN <<>>
           ELSE [n \in 1..Len(questions) |->
                    JObj(DictSet(questions[n].m, "answers",
                                 JObj(answers_of(models,
                                                 SubSeq(outcomes, (n - 1) * per + 1, n * per),
                                                 per))))],
     calls |-> done * per,
     sleeps |-> done * per]

\* the replies to one call: every string of at most MaxReply characters
AnswerOutcomes ==
    {CompletionRaise, CompletionNoChoice, CompletionNoContent}
    \cup {CompletionText(content) : content \in SeqsUpTo(Chars, MaxReply)}

\* the replies to the calls of a list of questions: a letter, no letter, a failure
ProcessOutcomes == {CompletionText(<<"a">>), CompletionText(<<"1">>), CompletionRaise}

\* two questions as save_mcqs_to_file writes them, and one without its options
AnswerQuestions ==
    {JObj(<<Member("entity_id", JStr("X1")), Member("question", JStr("Q1?")),
            Member("options", Options(ABCD))>>),
     JObj(<<Member("question", JStr("Q2?")), Member("options", Options(<<"T", "F">>))>>),
     JObj(<<Member("question", JStr("Q3?"))>>)}

\* every list of outcomes of exactly n calls
OutcomeLists(n) == {q \in SeqsUpTo(ProcessOutcomes, n) : Len(q) = n}

FnInputs ==
    {[f |-> "classify", x |-> r] : r \in FnRecords}
    \cup {[f |-> "extract", x |-> r] : r \in FnRecords}
    \cup {[f |-> "select", x |-> r] : r \in FnRecords}
    \cup {[f |-> "save", mcqs |-> mcqs] : mcqs \in SeqsUpTo(SavedRecords, MaxSaved)}
    \cup {[f |-> "parse", entity_data |-> e, prefix |-> pre, value |-> v,
           cut |-> c, suffix |-> suf] :
             e \in FnEntities, pre \in Prefixes, v \in PayloadValues,
             c \in {0, 1}, suf \in Suffixes}
    \cup {[f |-> "answer", outcome |-> o] : o \in AnswerOutcomes}
    \cup UNION {{[f |-> "process", questions |-> qs, outcomes |-> os] :
                    os \in OutcomeLists(Len(qs) * Len(Models))} :
                 qs \in SeqsUpTo(AnswerQuestions, MaxQuestions)}

\* the parser chosen by the parent context instead of the kind
parse_response_by_parent(response_text, entity_data) ==
    IF "parent_tactic" \notin DOMAIN entity_data
    THEN parse_procedure_response(response_text, entity_data)
    ELSE LET parsed == parse_technique_response(response_text, entity_data) IN
         IF parsed.raised THEN Raise ELSE Return(<<parsed.v>>)

\* the parser generate_mcq_for_entity calls for the work item's kind, as a list
parse_response(response_text, entity_data) ==
    IF entity_data.entity_type = "procedure"
    THEN parse_procedure_response(response_text, entity_data)
    ELSE LET parsed == parse_technique_response(response_text, entity_data) IN
         IF parsed.raised THEN Raise ELSE Return(<<parsed.v>>)

InitFn ==
    /\ fn_in \in FnInputs
    /\ fn_out = <<>>
    /\ json_data = JArr(<<>>)
    /\ pc = "load"
    /\ i = 0
    /\ entities = <<>>
    /\ j = 0
    /\ request = <<>>
    /\ all_mcqs = <<>>
    /\ stdout = <<>>
    /\ sleeps = 0
    /\ calls = 0
    /\ saved = <<>>
    /\ result = NoResult
    /\ summary = <<>>
    /\ abort = ""
    /\ hist = <<>>
    /\ origin = <<>>

Classify ==
    /\ fn_in.f = "classify"
    /\ fn_out = <<>>
    /\ fn_out' = <<identify_entity_type(fn_in.x)>>
    /\ UNCHANGED <<fn_in, run_vars>>

Extract ==
    /\ fn_in.f = "extract"
    /\ fn_out = <<>>
    /\ fn_out' = <<extract_entities_from_json(fn_in.x)>>
    /\ UNCHANGED <<fn_in, run_vars>>

\* the work items of a record, and for each the system prompt chosen and the
\* prompt built by generate_mcq_for_entity
Select ==
    /\ fn_in.f = "select"
    /\ fn_out = <<>>
    /\ \E found \in {extract_entities_from_json(fn_in.x)} :
         fn_out' = <<[entities |-> found,
                      templates |-> IF found.raised THEN <<>>
                                    ELSE [n \in 1..Len(found.v) |->
                                             system_prompt_for(found.v[n])],
                      prompts |-> IF found.raised THEN <<>>
                                  ELSE [n \in 1..Len(found.v) |->
                                           select_prompt(found.v[n])]]>>
    /\ UNCHANGED <<fn_in, run_vars>>

\* save_mcqs_to_file on a list of records, and the file read back
Save ==
    /\ fn_in.f = "save"
    /\ fn_out = <<>>
    /\ \E text \in {save_mcqs_to_file(fn_in.mcqs)} :
         fn_out' = <<[text |-> text, back |-> load_mcqs(text)]>>
    /\ UNCHANGED <<fn_in, run_vars>>

\* the reply alone, the reply in its surrounding text, and the try block on the latter
Parse ==
    /\ fn_in.f = "parse"
    /\ fn_out = <<>>
    /\ fn_out' = <<[alone |-> parse_response(Strip(Written(fn_in.value, fn_in.cut)),
                                             fn_in.entity_data),
                    parsed |-> parse_response(Strip(ReplyText(fn_in)), fn_in.entity_data),
                    mcqs |-> handle_response(fn_in.entity_data,
                                             ServiceText(ReplyText(fn_in)))]>>
    /\ UNCHANGED <<fn_in, run_vars>>

\* one call of get_answer_from_model
Answer ==
    /\ fn_in.f = "answer"
    /\ fn_out = <<>>
    /\ fn_out' = <<[answer |-> get_answer_from_model(fn_in.outcome),
                    printed |-> answer_error_printed(fn_in.outcome)]>>
    /\ UNCHANGED <<fn_in, run_vars>>

\* process_questions on a list of questions with the models of main
Process ==
    /\ fn_in.f = "process"
    /\ fn_out = <<>>
    /\ fn_out' = <<process_questions(fn_in.questions, Models, fn_in.outcomes)>>
    /\ UNCHANGED <<fn_in, run_vars>>

NextFn == Classify \/ Extract \/ Select \/ Save \/ Parse \/ Answer \/ Process

SpecFn == InitFn /\ [][NextFn]_vars

---------------------------------------------------------------------------
(* Properties of a run (Spec) *)

\* the work items the records of a run can yield
RunEntities ==
    UNION {LET found == extract_entities_from_json(r) IN
           IF found.raised THEN {} ELSE {found.v[n] : n \in 1..Len(found.v)} :
           r \in RunRecords}

\* what the call and the parser make of each outcome for each work item
RunParses ==
    {[entity_data |-> e, outcome |-> o,
      parsed |-> IF ServiceOutcome(o).kind # "text" THEN Raise
                 ELSE parse_response(Strip(ServiceOutcome(o).text), e)] :
       e \in RunEntities, o \in RunOutcomes}

ParsedFor(h) ==
    (CHOOSE x \in RunParses :
        x.entity_data = h.entity_data /\ x.outcome = h.outcome).parsed

\* the generation call or the parse of its reply failed
Failed(h) == ParsedFor(h).raised

\* the positions of all_mcqs that came from the work item of history entry h
Contribution(h) ==
    {n \in 1..Len(origin) : origin[n].item = h.item /\ origin[n].entity = h.entity}

\* the work items of the whole input, in order, as hist lists them
RECURSIVE WorkItemsFrom(_)
WorkItemsFrom(k) ==
    IF k > Len(json_data.m) THEN <<>>
    ELSE LET found == extract_entities_from_json(json_data.m[k]) IN
         (IF found.raised THEN <<>>
          ELSE [n \in 1..Len(found.v) |->
                   [item |-> k, entity |-> n, entity_data |-> found.v[n]]])
         \o WorkItemsFrom(k + 1)

WorkItems ==
    IF IsBatch THEN WorkItemsFrom(1)
    ELSE LET found == extract_entities_from_json(json_data) IN
         IF found.raised THEN <<>>
         ELSE [n \in 1..Len(found.v) |->
                  [item |-> 0, entity |-> n, entity_data |-> found.v[n]]]

Processed ==
    [n \in 1..Len(hist) |->
        [item |-> hist[n].item, entity |-> hist[n].entity,
         entity_data |-> hist[n].entity_data]]

\* C1: a work item whose generation call or reply parse fails contributes no
\* record and never aborts the run; every other work item contributes exactly
\* the records parsed from its reply, and a run that returns has processed
\* every work item of the input.
C1_FailedItemIsSkipped ==
    /\ abort # "generate"
    /\ Len(origin) = Len(all_mcqs)
    /\ \A n \in 1..Len(hist) :
         IF Failed(hist[n])
         THEN Contribution(hist[n]) = {}
         ELSE /\ Cardinality(Contribution(hist[n])) = Len(ParsedFor(hist[n]).v)
              /\ \A q \in Contribution(hist[n]) :
                   all_mcqs[q] = ParsedFor(hist[n]).v[origin[q].pos]
    /\ result.returned => Processed = WorkItems /\ result.mcqs = all_mcqs

\* a 3-record batch has returned; only the call for record 2 raised, and the
\* result holds one record of record 1 and one of record 3
C1_Witness ==
    /\ IsBatch
    /\ Len(json_data.m) = 3
    /\ result.returned
    /\ Len(hist) = 3
    /\ hist[1].outcome = "technique reply"
    /\ hist[2].outcome = "raise"
    /\ hist[3].outcome = "technique reply"
    /\ Len(result.mcqs) = 2
    /\ [n \in 1..Len(origin) |-> origin[n].item] = <<1, 3>>

\* the options object of the reply question a record was built from
SourceOptions(outcome, pos) ==
    IF outcome = "technique reply" THEN Options(ABCD)
    ELSE Item(json_loads(Slice(ProcedureReply, Find(ProcedureReply, "["),
                               RFind(ProcedureReply, "]") + 1)).v.m[pos], "options")

HistOf(tag) ==
    hist[CHOOSE n \in 1..Len(hist) :
            hist[n].item = tag.item /\ hist[n].entity = tag.entity]

\* C2: every record of the result names, as its correct_answer, a key of the
\* options object of the reply question it was built from.
C2_AnswerIsAnOptionKey ==
    \A n \in 1..Len(all_mcqs) :
        LET options == SourceOptions(HistOf(origin[n]).outcome, origin[n].pos) IN
        \E q \in 1..Len(options.m) : all_mcqs[n].correct_answer = JStr(options.m[q].k)

Before(x, y) ==
    \/ x.item < y.item
    \/ x.item = y.item /\ x.entity < y.entity
    \/ x.item = y.item /\ x.entity = y.entity /\ x.pos < y.pos

\* C3: the result lists the records in the order of their work items: by input
\* record, then by child technique of a tactic, then by position in the reply's
\* array; each record is the one parsed at that position.
C3_ResultInWorkItemOrder ==
    /\ Len(origin) = Len(all_mcqs)
    /\ \A a, b \in 1..Len(origin) : a < b => Before(origin[a], origin[b])
    /\ \A n \in 1..Len(origin) :
         all_mcqs[n] = ParsedFor(HistOf(origin[n])).v[origin[n].pos]
    /\ result.returned => result.mcqs = all_mcqs

\* a tactic with two children and then a procedure, every reply parsed: four
\* records, two of the tactic's children in order, then two of the procedure
C3_Witness ==
    /\ result.returned
    /\ IsBatch
    /\ Len(origin) = 4
    /\ [n \in 1..4 |-> <<origin[n].item, origin[n].entity, origin[n].pos>>]
         = <<<<1, 1, 1>>, <<1, 2, 1>>, <<2, 1, 1>>, <<2, 1, 2>>>>
    /\ result.mcqs[1].entity_title = JStr("first")
    /\ result.mcqs[2].entity_title = JStr("second")
    /\ result.mcqs[3].entity_id = JStr("Y1")
    /\ result.mcqs[4].entity_id = JStr("P1")

\* C9: when the run has ended, every element of the batch that is a mapping
\* has had all its work items processed and the result has been returned,
\* whatever the other elements of the batch are.
C9_BadElementAbortsOnlyItself ==
    (IsBatch /\ pc \in {"done", "error"}) =>
        \A k \in 1..Len(json_data.m) :
            json_data.m[k].t = "obj" =>
                /\ result.returned
                /\ \A w \in 1..Len(WorkItems) :
                     WorkItems[w].item = k =>
                        \E n \in 1..Len(hist) :
                            hist[n].item = k /\ hist[n].entity = WorkItems[w].entity

\* the number of work items that yielded no record
FailedItems == Cardinality({n \in 1..Len(hist) : Contribution(hist[n]) = {}})

\* C10: at the end of a run the summary reports a failure count, equal to the
\* number of work items that yielded no record.
C10_FailureCountReported ==
    pc = "done" =>
        /\ "failed" \in DOMAIN summary[1]
        /\ summary[1]["failed"] = FailedItems

\* C11: the service is called once per work item: every call made is either
\* in flight or has its one entry in the history, no work item has two entries
\* (a failed one is not called again), and a run that returns has made as many
\* calls as the input has work items.
C11_OneCallPerWorkItem ==
    /\ calls = Len(hist) + Len(request)
    /\ \A a, b \in 1..Len(hist) :
         (hist[a].item = hist[b].item /\ hist[a].entity = hist[b].entity) => a = b
    /\ result.returned => calls = Len(WorkItems) /\ Len(hist) = Len(WorkItems)

\* a tactic, a procedure and a technique: four work items, the first call raised
\* and the second reply did not parse; the run returned after four calls
C11_Witness ==
    /\ result.returned
    /\ Len(WorkItems) = 4
    /\ calls = 4
    /\ hist[1].outcome = "raise"
    /\ hist[2].outcome = "procedure reply"
    /\ Failed(hist[1])
    /\ Failed(hist[2])
    /\ ~Failed(hist[3])

\* C12: at most one call is in flight, and it is the call for the work item
\* right after the processed ones: the processed work items are a prefix of the
\* input's work items in order, each with its records already appended, and no
\* record of a later work item is in the result.
C12_OneWorkItemAtATime ==
    /\ Len(request) <= 1
    /\ (Len(request) = 1) <=> (pc = "wait")
    /\ Len(hist) <= Len(WorkItems)
    /\ Processed = SubSeq(WorkItems, 1, Len(hist))
    /\ pc = "wait" =>
         /\ Len(hist) < Len(WorkItems)
         /\ WorkItems[Len(hist) + 1].item = i
         /\ WorkItems[Len(hist) + 1].entity = j + 1
         /\ request[1] = select_prompt(WorkItems[Len(hist) + 1].entity_data).v
    /\ \A n \in 1..Len(hist) :
         Cardinality(Contribution(hist[n])) =
            IF Failed(hist[n]) THEN 0 ELSE Len(ParsedFor(hist[n]).v)
    /\ \A n \in 1..Len(origin) :
         \E h \in 1..Len(hist) :
            hist[h].item = origin[n].item /\ hist[h].entity = origin[n].entity

\* the call for the second child of a tactic is in flight; the first child's
\* record is already in the result
C12_Witness ==
    /\ pc = "wait"
    /\ Len(request) = 1
    /\ request[1].system = "tactic"
    /\ j = 1
    /\ Len(hist) = 1
    /\ Len(all_mcqs) = 1
    /\ all_mcqs[1].entity_title = JStr("first")

\* C19: every call is followed by one sleep before the next call starts: while
\* a call is in flight or its reply has just been handled, all earlier calls
\* have had their sleep; at every other point, the next call's start and the
\* end of the run included, every call has had its sleep, failed or not.
C19_CooldownAfterEveryCall ==
    /\ sleeps = IF pc \in {"wait", "sleep"} THEN calls - 1 ELSE calls
    /\ pc = "invoke" => sleeps = Len(hist)
    /\ result.returned => sleeps = Len(hist)

\* two calls, the first failed and the second gave a record: two sleeps
C19_Witness ==
    /\ result.returned
    /\ calls = 2
    /\ sleeps = 2
    /\ Failed(hist[1])
    /\ ~Failed(hist[2])
    /\ Len(result.mcqs) = 1

\* the input is one record, on its own or as the only element of a list
OnOneRecord == json_data.t = "arr" => Len(json_data.m) = 1

\* that record
SoleRecord == IF json_data.t = "arr" THEN json_data.m[1] ELSE json_data

\* the records the first n processed work items gave, in order
RECURSIVE Collected(_)
Collected(n) ==
    IF n = 0 THEN <<>>
    ELSE Collected(n - 1) \o (IF Failed(hist[n]) THEN <<>> ELSE ParsedFor(hist[n]).v)

\* C21: a run on a record R and a run on the list [R] are the same function of
\* R and of the replies: in both, the calls made are those for the work items
\* of R in order, each with the prompt of its work item, the result holds the
\* records parsed from the replies so far, every call has its sleep, and the
\* run returns after the last work item with that result (or, when R cannot be
\* extracted, ends without any call).
C21_SingleAndBatchOfOneAgree ==
    OnOneRecord =>
        LET found == extract_entities_from_json(SoleRecord) IN
        IF found.raised
        THEN /\ calls = 0
             /\ sleeps = 0
             /\ all_mcqs = <<>>
             /\ ~result.returned
             /\ pc \in {"load", "loop", "error"}
        ELSE /\ pc # "error"
             /\ Len(hist) <= Len(found.v)
             /\ \A n \in 1..Len(hist) :
                  hist[n].entity = n /\ hist[n].entity_data = found.v[n]
             /\ all_mcqs = Collected(Len(hist))
             /\ calls = Len(hist) + Len(request)
             /\ Len(request) = 1 =>
                  request[1] = select_prompt(found.v[Len(hist) + 1]).v
             /\ sleeps = IF pc \in {"wait", "sleep"} THEN calls - 1 ELSE calls
             /\ result.returned =>
                  /\ Len(hist) = Len(found.v)
                  /\ result.mcqs = all_mcqs
                  /\ saved = <<save_mcqs_to_file(all_mcqs)>>

\* the list holding only the tactic: the call for its first child raised, the
\* second gave a record, and the run returned that one record after two sleeps
C21_Witness ==
    /\ json_data = JArr(<<TacticRecord>>)
    /\ result.returned
    /\ Len(hist) = 2
    /\ hist[1].outcome = "raise"
    /\ hist[2].outcome = "technique reply"
    /\ Len(result.mcqs) = 1
    /\ result.mcqs[1].entity_title = JStr("second")
    /\ sleeps = 2

\* the tactic on its own, with the same replies: the same record and sleeps
C21_WitnessSingle ==
    /\ json_data = TacticRecord
    /\ result.returned
    /\ Len(hist) = 2
    /\ hist[1].outcome = "raise"
    /\ hist[2].outcome = "technique reply"
    /\ Len(result.mcqs) = 1
    /\ result.mcqs[1].entity_title = JStr("second")
    /\ sleeps = 2

\* the first list is the beginning of the second
IsPrefix(a, b) == Len(a) <= Len(b) /\ SubSeq(b, 1, Len(a)) = a

\* C26: every step of a run leaves the records already in the result where
\* they are and as they are: the result before the step is a prefix of the
\* result after it, and so is the list of the work items they came from.
C26_ResultOnlyGrowsAtItsEnd ==
    [][IsPrefix(all_mcqs, all_mcqs') /\ IsPrefix(origin, origin')]_vars

\* the result holds the records of three different work items, appended one
\* after the other: a tactic's two children and the first of a procedure
C26_Witness ==
    /\ Len(all_mcqs) >= 3
    /\ origin[1].item = 1 /\ origin[1].entity = 1
    /\ origin[2].item = 1 /\ origin[2].entity = 2
    /\ origin[3].item = 2
    /\ all_mcqs[1].entity_title = JStr("first")
    /\ all_mcqs[2].entity_title = JStr("second")
    /\ all_mcqs[3].entity_type = "procedure"

---------------------------------------------------------------------------
(* Properties of the pure functions (SpecFn) *)

Applied(f) == fn_in.f = f /\ Len(fn_out) = 1

\* C4: identify_entity_type returns tactic, technique or procedure for every
\* record, whatever its 'type' member is (missing, null, not a string, unknown).
C4_ClassifyIsTotal ==
    (Applied("classify") /\ fn_in.x.t = "obj") =>
        /\ ~fn_out[1].raised
        /\ fn_out[1].v \in EntityType

\* the kind a type string names, whatever its case; "" when it names none
DeclaredKind(str) ==
    CASE str \in {"tactic", "Tactic", "TACTIC"} -> "tactic"
      [] str \in {"technique", "Technique", "TECHNIQUE"} -> "technique"
      [] str \in {"procedure", "Procedure", "PROCEDURE"} -> "procedure"
      [] OTHER -> ""

\* the record declares one of the three kinds in its 'type' member
DeclaresKind(data) ==
    /\ data.t = "obj"
    /\ Has(data, "type")
    /\ Item(data, "type").t = "str"
    /\ DeclaredKind(Item(data, "type").s) # ""

\* the record's 'technique' member is a non-empty list
HasChildren(data) ==
    /\ Has(data, "technique")
    /\ Item(data, "technique").t = "arr"
    /\ Len(Item(data, "technique").m) > 0

\* C13: a record whose 'type' string names tactic, technique or procedure in
\* any case is classified as that kind, whatever its 'technique' member holds.
C13_DeclaredTypeIsAuthoritative ==
    (Applied("classify") /\ DeclaresKind(fn_in.x)) =>
        /\ ~fn_out[1].raised
        /\ fn_out[1].v = DeclaredKind(Item(fn_in.x, "type").s)

\* type "Technique" with two children was classified as technique
C13_Witness ==
    /\ Applied("classify")
    /\ DeclaresKind(fn_in.x)
    /\ Item(fn_in.x, "type").s = "Technique"
    /\ HasChildren(fn_in.x)
    /\ Len(Item(fn_in.x, "technique").m) = 2
    /\ ~fn_out[1].raised
    /\ fn_out[1].v = "technique"

\* type "TACTIC" without a 'technique' member was classified as tactic
C13_WitnessNoChildren ==
    /\ Applied("classify")
    /\ DeclaresKind(fn_in.x)
    /\ Item(fn_in.x, "type").s = "TACTIC"
    /\ ~Has(fn_in.x, "technique")
    /\ fn_out[1].v = "tactic"

\* C14: a record whose 'type' is missing or names none of the three kinds is
\* classified as tactic when its 'technique' member is a non-empty list and as
\* technique otherwise, never as procedure.
C14_FallbackOnUnrecognisedType ==
    (Applied("classify") /\ fn_in.x.t = "obj" /\ ~DeclaresKind(fn_in.x)) =>
        /\ ~fn_out[1].raised
        /\ fn_out[1].v = IF HasChildren(fn_in.x) THEN "tactic" ELSE "technique"

\* C14 for a 'type' that is missing or a string: the fallback as claimed
C14_FallbackOnStringType ==
    (/\ Applied("classify")
     /\ fn_in.x.t = "obj"
     /\ ~DeclaresKind(fn_in.x)
     /\ Has(fn_in.x, "type") => Item(fn_in.x, "type").t = "str") =>
        /\ ~fn_out[1].raised
        /\ fn_out[1].v = IF HasChildren(fn_in.x) THEN "tactic" ELSE "technique"


\* the system prompt a work item must get: by its kind and by whether it
\* carries the context of a parent tactic
ExpectedTemplate(entity_data) ==
    CASE entity_data.entity_type = "technique" /\ "parent_tactic" \in DOMAIN entity_data
           -> "tactic"
      [] entity_data.entity_type = "technique" /\ "parent_tactic" \notin DOMAIN entity_data
           -> "technique"
      [] entity_data.entity_type = "procedure" -> "procedure"
      [] OTHER -> "none"

\* C15: every work item the extractor yields is a technique or a procedure and
\* gets exactly the system prompt of its kind and parent context; the branch
\* for an unknown entity type is never taken, and the prompt built carries the
\* chosen system prompt (building it fails only while rendering the associated
\* techniques of a procedure).
C15_OneTemplatePerWorkItem ==
    (Applied("select") /\ ~fn_out[1].entities.raised) =>
        \A n \in 1..Len(fn_out[1].entities.v) :
            LET entity_data == fn_out[1].entities.v[n]
                prompt == fn_out[1].prompts[n]
            IN  /\ entity_data.entity_type \in {"technique", "procedure"}
                /\ fn_out[1].templates[n] = ExpectedTemplate(entity_data)
                /\ fn_out[1].templates[n] \in {"tactic", "technique", "procedure"}
                /\ prompt.raised => entity_data.entity_type = "procedure"
                /\ ~prompt.raised => prompt.v.system = fn_out[1].templates[n]

\* a tactic with two children: both work items got the tactic-integrated prompt
C15_Witness ==
    /\ Applied("select")
    /\ ~fn_out[1].entities.raised
    /\ Len(fn_out[1].entities.v) = 2
    /\ fn_out[1].templates = <<"tactic", "tactic">>
    /\ ~fn_out[1].prompts[2].raised
    /\ fn_out[1].prompts[2].v.system = "tactic"

\* a technique record on its own got the standalone-technique prompt
C15_WitnessStandalone ==
    /\ Applied("select")
    /\ ~fn_out[1].entities.raised
    /\ fn_out[1].templates = <<"technique">>

\* a procedure record got the procedure prompt
C15_WitnessProcedure ==
    /\ Applied("select")
    /\ ~fn_out[1].entities.raised
    /\ fn_out[1].templates = <<"procedure">>
    /\ ~fn_out[1].prompts[1].raised

\* the brackets the parser of a work item looks for
OpenOf(entity_data) == IF entity_data.entity_type = "procedure" THEN P("[") ELSE P("{")

CloseOf(entity_data) == IF entity_data.entity_type = "procedure" THEN P("]") ELSE P("}")

Holds(text, tok) == \E n \in 1..Len(text) : text[n] = tok

\* C5: a reply without an opening bracket of the expected shape, or without a
\* closing one, makes the parser raise, and the work item yields no record.
C5_NoBracketPairFails ==
    (/\ Applied("parse")
     /\ \/ ~Holds(ReplyText(fn_in), OpenOf(fn_in.entity_data))
        \/ ~Holds(ReplyText(fn_in), CloseOf(fn_in.entity_data))) =>
        /\ fn_out[1].parsed.raised
        /\ fn_out[1].mcqs = Return(<<>>)

\* the reply has the opening bracket and no closing one, and parsing raised
C5_Witness ==
    /\ Applied("parse")
    /\ Holds(ReplyText(fn_in), OpenOf(fn_in.entity_data))
    /\ ~Holds(ReplyText(fn_in), CloseOf(fn_in.entity_data))
    /\ fn_out[1].parsed.raised
    /\ fn_out[1].mcqs = Return(<<>>)

\* the payload is whole and of the shape expected for the work item
ValidPayload(in) ==
    /\ in.cut = 0
    /\ in.value.t = IF in.entity_data.entity_type = "procedure" THEN "arr" ELSE "obj"

\* a question object with every required member and an options object
WellFormed(q) ==
    /\ q.t = "obj"
    /\ \A f \in RequiredFields : Has(q, f)
    /\ Item(q, "options").t = "obj"

\* the questions of a payload: the object itself, or the elements of the array
QuestionsOf(value) == IF value.t = "arr" THEN value.m ELSE <<value>>

\* C6 as claimed: whatever text surrounds a valid payload, parsing the reply
\* yields what parsing the payload alone yields.
C6_AnySurroundingText ==
    (Applied("parse") /\ ValidPayload(fn_in)) =>
        fn_out[1].parsed = fn_out[1].alone

\* C6 amended: when the text before the payload holds no opening bracket of the
\* expected shape and the text after it no closing one, parsing the reply
\* yields what parsing the payload alone yields: for well-formed questions one
\* record per question, in order, with the question's answer and identifier.
C6_SurroundingTextWithoutBrackets ==
    (/\ Applied("parse")
     /\ ValidPayload(fn_in)
     /\ ~Holds(fn_in.prefix, OpenOf(fn_in.entity_data))
     /\ ~Holds(fn_in.suffix, CloseOf(fn_in.entity_data))) =>
        /\ fn_out[1].parsed = fn_out[1].alone
        /\ LET qs == QuestionsOf(fn_in.value)
               id_key == IF fn_in.entity_data.entity_type = "procedure"
                         THEN "procedure_id" ELSE "technique_id"
           IN  IF \A n \in 1..Len(qs) : WellFormed(qs[n])
               THEN /\ ~fn_out[1].parsed.raised
                    /\ Len(fn_out[1].parsed.v) = Len(qs)
                    /\ \A n \in 1..Len(qs) :
                         /\ fn_out[1].parsed.v[n].correct_answer = Item(qs[n], "correct_answer")
                         /\ fn_out[1].parsed.v[n].options = Values(Item(qs[n], "options"))
                         /\ fn_out[1].parsed.v[n].entity_id =
                              IF Has(qs[n], id_key) THEN Item(qs[n], id_key)
                              ELSE fn_in.entity_data.entity_id
               ELSE fn_out[1].parsed.raised

\* the fenced reply echoing technique_id X1 with answer B gave exactly one
\* record, with entity_id X1 and correct_answer B
C6_Witness ==
    /\ Applied("parse")
    /\ fn_in.entity_data.entity_type = "technique"
    /\ fn_in.prefix = <<Ws, W("Here is the result:"), Ws, W("fence-json"), Ws>>
    /\ fn_in.suffix = <<Ws, W("fence"), Ws, W("Done."), Ws>>
    /\ fn_in.cut = 0
    /\ Has(fn_in.value, "technique_id")
    /\ ~fn_out[1].parsed.raised
    /\ Len(fn_out[1].parsed.v) = 1
    /\ fn_out[1].parsed.v[1].entity_id = JStr("X1")
    /\ fn_out[1].parsed.v[1].correct_answer = JStr("B")
    /\ fn_out[1].mcqs = fn_out[1].parsed

\* a question object that lacks one of the required members
LacksField(q) == q.t = "obj" /\ \E f \in RequiredFields : ~Has(q, f)

\* C16: when the payload of a reply is of the expected shape and the question
\* object, or any element of the array, lacks one of question_type, question,
\* options, correct_answer and explanation, the parser raises and the work item
\* yields no record at all: no record is built with a default in its place.
C16_MissingFieldFails ==
    (/\ Applied("parse")
     /\ ValidPayload(fn_in)
     /\ \E n \in 1..Len(QuestionsOf(fn_in.value)) : LacksField(QuestionsOf(fn_in.value)[n])) =>
        /\ fn_out[1].alone.raised
        /\ fn_out[1].parsed.raised
        /\ fn_out[1].mcqs = Return(<<>>)

\* a procedure's array whose first question is complete and whose second has
\* no explanation: the parser raised and no record was emitted
C16_Witness ==
    /\ Applied("parse")
    /\ fn_in.entity_data.entity_type = "procedure"
    /\ ValidPayload(fn_in)
    /\ fn_in.prefix = <<>>
    /\ fn_in.suffix = <<>>
    /\ Len(fn_in.value.m) = 2
    /\ WellFormed(fn_in.value.m[1])
    /\ fn_in.value.m[2].t = "obj"
    /\ ~Has(fn_in.value.m[2], "explanation")
    /\ \A f \in RequiredFields \ {"explanation"} : Has(fn_in.value.m[2], f)
    /\ fn_out[1].parsed.raised
    /\ fn_out[1].mcqs = Return(<<>>)

\* C17: every record the parser emits has exactly four options; a reply whose
\* options object has fewer or more than four members yields no record.
C17_FourOptionsOrFailure ==
    Applied("parse") =>
        \A n \in 1..Len(fn_out[1].mcqs.v) : Len(fn_out[1].mcqs.v[n].options) = 4

\* C18: every record emitted for a payload of the expected shape carries the
\* identifier and the title the question echoes (technique_id/technique_title
\* for a technique, procedure_id/procedure_title for a procedure), each taken
\* from the work item when the question does not have that member.
C18_EchoedIdentityOrWorkItems ==
    (Applied("parse") /\ ValidPayload(fn_in) /\ ~fn_out[1].alone.raised) =>
        LET qs == QuestionsOf(fn_in.value)
            kind == fn_in.entity_data.entity_type
            id_key == IF kind = "procedure" THEN "procedure_id" ELSE "technique_id"
            title_key == IF kind = "procedure" THEN "procedure_title" ELSE "technique_title"
            mcqs == fn_out[1].alone.v
        IN  /\ Len(mcqs) = Len(qs)
            /\ \A n \in 1..Len(qs) :
                 /\ mcqs[n].entity_id =
                      IF Has(qs[n], id_key) THEN Item(qs[n], id_key)
                      ELSE fn_in.entity_data.entity_id
                 /\ mcqs[n].entity_title =
                      IF Has(qs[n], title_key) THEN Item(qs[n], title_key)
                      ELSE fn_in.entity_data.entity_title
            /\ (~fn_out[1].parsed.raised) => fn_out[1].parsed = fn_out[1].alone

\* a technique's reply echoing technique_title and no technique_id: the record
\* has the echoed title and the work item's id
C18_Witness ==
    /\ Applied("parse")
    /\ fn_in.entity_data.entity_type = "technique"
    /\ ValidPayload(fn_in)
    /\ Has(fn_in.value, "technique_title")
    /\ ~Has(fn_in.value, "technique_id")
    /\ ~fn_out[1].parsed.raised
    /\ fn_out[1].parsed.v[1].entity_title = JStr("echoed")
    /\ fn_out[1].parsed.v[1].entity_title # fn_in.entity_data.entity_title
    /\ fn_out[1].parsed.v[1].entity_id = fn_in.entity_data.entity_id
    /\ fn_out[1].mcqs = fn_out[1].parsed

\* a procedure's reply of two questions, the first echoing procedure_id and the
\* second not: the first record has the echoed id, the second the work item's
C18_WitnessProcedure ==
    /\ Applied("parse")
    /\ fn_in.entity_data.entity_type = "procedure"
    /\ ValidPayload(fn_in)
    /\ ~fn_out[1].parsed.raised
    /\ Len(fn_out[1].parsed.v) = 2
    /\ fn_out[1].parsed.v[1].entity_id = JStr("Y1")
    /\ fn_out[1].parsed.v[2].entity_id = fn_in.entity_data.entity_id
    /\ fn_in.entity_data.entity_id = JStr("P1")

\* C20: the file written by save_mcqs_to_file, read back, gives the list of
\* records that was saved, whatever the number of options of the records.
C20_SaveRoundTrip ==
    Applied("save") =>
        /\ ~fn_out[1].back.raised
        /\ fn_out[1].back.v = fn_in.mcqs

\* C20 for records of exactly four options: the list read back is the list saved
C20_SaveRoundTripOfFourOptions ==
    (Applied("save") /\ \A n \in 1..Len(fn_in.mcqs) : Len(fn_in.mcqs[n].options) = 4) =>
        /\ ~fn_out[1].back.raised
        /\ fn_out[1].back.v = fn_in.mcqs

\* the classifier returns this kind for the record
ClassifiedAs(data, kind) ==
    LET entity_type == identify_entity_type(data) IN
    ~entity_type.raised /\ entity_type.v = kind

\* the id of a record, by cases
ExpectedId(data) ==
    IF Has(data, "id") THEN Item(data, "id")
    ELSE IF Has(data, "mitreId") THEN Item(data, "mitreId")
    ELSE JStr("")

ExpectedMember(data, key) == IF Has(data, key) THEN Item(data, key) ELSE JStr("")

\* the record's children: its 'technique' list, none when the member is absent
ChildrenOf(data) == IF Has(data, "technique") THEN Item(data, "technique").m ELSE <<>>

\* the 'technique' member is absent or a list of mappings
HasChildList(data) ==
    Has(data, "technique") =>
        /\ Item(data, "technique").t = "arr"
        /\ \A n \in 1..Len(Item(data, "technique").m) : Item(data, "technique").m[n].t = "obj"

\* C7: a record classified as tactic with N child techniques yields N work
\* items, the n-th built from the n-th child, all with the same parent context:
\* the tactic's title, description and id (its mitreId when it has no id).
C7_TacticYieldsItemPerChild ==
    (/\ Applied("extract")
     /\ ClassifiedAs(fn_in.x, "tactic")
     /\ HasChildList(fn_in.x)) =>
        LET kids == ChildrenOf(fn_in.x)
            out == fn_out[1]
        IN  /\ ~out.raised
            /\ Len(out.v) = Len(kids)
            /\ \A n \in 1..Len(kids) :
                 /\ out.v[n].entity_type = "technique"
                 /\ out.v[n].entity_id = ExpectedId(kids[n])
                 /\ out.v[n].entity_title = ExpectedMember(kids[n], "title")
                 /\ out.v[n].entity_description = ExpectedMember(kids[n], "description")
                 /\ out.v[n].parent_tactic =
                      [tactic_title |-> ExpectedMember(fn_in.x, "title"),
                       tactic_description |-> ExpectedMember(fn_in.x, "description"),
                       tactic_id |-> ExpectedId(fn_in.x)]

\* a tactic that has a mitreId and no id, with two children, gave two work items
C7_Witness ==
    /\ Applied("extract")
    /\ ClassifiedAs(fn_in.x, "tactic")
    /\ HasChildList(fn_in.x)
    /\ ~Has(fn_in.x, "id")
    /\ Has(fn_in.x, "mitreId")
    /\ Len(ChildrenOf(fn_in.x)) = 2
    /\ ChildrenOf(fn_in.x)[1] # ChildrenOf(fn_in.x)[2]
    /\ ~fn_out[1].raised
    /\ Len(fn_out[1].v) = 2
    /\ fn_out[1].v[1].parent_tactic.tactic_id = JStr("M1")

\* C8: a record classified as procedure yields exactly one work item, whose
\* associated_techniques is the record's child sequence: same length, order
\* and values (empty when the record has none).
C8_ProcedureKeepsTechniques ==
    (/\ Applied("extract")
     /\ ClassifiedAs(fn_in.x, "procedure")
     /\ HasChildList(fn_in.x)) =>
        LET out == fn_out[1] IN
        /\ ~out.raised
        /\ Len(out.v) = 1
        /\ out.v[1].entity_type = "procedure"
        /\ out.v[1].associated_techniques.t = "arr"
        /\ out.v[1].associated_techniques.m = ChildrenOf(fn_in.x)

\* a procedure with two different children gave one work item holding both
C8_Witness ==
    /\ Applied("extract")
    /\ ClassifiedAs(fn_in.x, "procedure")
    /\ Len(ChildrenOf(fn_in.x)) = 2
    /\ ChildrenOf(fn_in.x)[1] # ChildrenOf(fn_in.x)[2]
    /\ ~fn_out[1].raised
    /\ Len(fn_out[1].v) = 1
    /\ Len(fn_out[1].v[1].associated_techniques.m) = 2

\* C23: a record classified as technique yields exactly one work item, of kind
\* technique, without parent_tactic and with the record's 'technique' member
\* as its sub_techniques (an empty list when the member is absent); the work
\* item gets the standalone-technique system prompt.
C23_TechniqueIsOneStandaloneItem ==
    (Applied("select") /\ ClassifiedAs(fn_in.x, "technique")) =>
        LET out == fn_out[1].entities IN
        /\ ~out.raised
        /\ Len(out.v) = 1
        /\ out.v[1].entity_type = "technique"
        /\ "parent_tactic" \notin DOMAIN out.v[1]
        /\ out.v[1].sub_techniques =
             IF Has(fn_in.x, "technique") THEN Item(fn_in.x, "technique") ELSE JArr(<<>>)
        /\ out.v[1].entity_id = ExpectedId(fn_in.x)
        /\ out.v[1].entity_title = ExpectedMember(fn_in.x, "title")
        /\ fn_out[1].templates = <<"technique">>
        /\ ~fn_out[1].prompts[1].raised
        /\ fn_out[1].prompts[1].v.system = "technique"

\* a record of type "Technique" with two children: one work item holding both
\* as sub_techniques, sent to the standalone-technique prompt
C23_Witness ==
    /\ Applied("select")
    /\ ClassifiedAs(fn_in.x, "technique")
    /\ Has(fn_in.x, "type")
    /\ Has(fn_in.x, "technique")
    /\ Item(fn_in.x, "technique").t = "arr"
    /\ Len(Item(fn_in.x, "technique").m) = 2
    /\ Len(fn_out[1].entities.v) = 1
    /\ Len(fn_out[1].entities.v[1].sub_techniques.m) = 2
    /\ fn_out[1].templates = <<"technique">>

\* the reply between the first opening and the last closing bracket of the
\* work item's kind, read as JSON
Enclosed(in) ==
    LET text == Strip(ReplyText(in))
        opens == Occurrences(text, OpenOf(in.entity_data))
        closes == Occurrences(text, CloseOf(in.entity_data))
    IN  IF opens = {} \/ closes = {} THEN [ok |-> FALSE, v |-> JNull]
        ELSE json_loads(SubSeq(text,
                               CHOOSE o \in opens : \A x \in opens : o <= x,
                               CHOOSE c \in closes : \A x \in closes : c >= x))

\* the record is the one built from that question
BuiltFrom(mcq, q) ==
    /\ WellFormed(q)
    /\ mcq.question_type = Item(q, "question_type")
    /\ mcq.question = Item(q, "question")
    /\ mcq.options = Values(Item(q, "options"))
    /\ mcq.correct_answer = Item(q, "correct_answer")
    /\ mcq.explanation = Item(q, "explanation")

\* C24: a parse that succeeds has read, for a technique work item with or
\* without parent context, the text from the first '{' to the last '}' as one
\* object and yields exactly one record, built from it; for a procedure work
\* item, the text from the first '[' to the last ']' as an array and yields
\* one record per element, the n-th built from the n-th element.
C24_ShapeByKind ==
    (Applied("parse") /\ ~fn_out[1].parsed.raised) =>
        LET read == Enclosed(fn_in)
            mcqs == fn_out[1].parsed.v
        IN  /\ read.ok
            /\ IF fn_in.entity_data.entity_type = "procedure"
               THEN /\ read.v.t = "arr"
                    /\ Len(mcqs) = Len(read.v.m)
                    /\ \A n \in 1..Len(mcqs) : BuiltFrom(mcqs[n], read.v.m[n])
               ELSE /\ read.v.t = "obj"
                    /\ Len(mcqs) = 1
                    /\ BuiltFrom(mcqs[1], read.v)
            /\ fn_out[1].mcqs = fn_out[1].parsed

\* a procedure's reply, an array of two different questions between prose
\* holding braces: two records, in the order of the array
C24_Witness ==
    /\ Applied("parse")
    /\ fn_in.entity_data.entity_type = "procedure"
    /\ Holds(fn_in.prefix, P("{"))
    /\ ~fn_out[1].parsed.raised
    /\ Len(fn_out[1].parsed.v) = 2
    /\ fn_out[1].parsed.v[1].correct_answer = JStr("C")
    /\ fn_out[1].parsed.v[2].correct_answer = JStr("D")

\* a technique without parent context, its reply an object between prose
\* holding square brackets: one record
C24_WitnessTechnique ==
    /\ Applied("parse")
    /\ fn_in.entity_data.entity_type = "technique"
    /\ "parent_tactic" \notin DOMAIN fn_in.entity_data
    /\ Holds(fn_in.prefix, P("["))
    /\ ~fn_out[1].parsed.raised
    /\ Len(fn_out[1].parsed.v) = 1

\* an element of a reply's array from which no record can be built
InvalidElement(q) == q.t # "obj" \/ LacksField(q)

\* C25: when any element of a procedure's array is not an object or lacks a
\* required field, the parser raises and the work item yields no record, the
\* well-formed elements before the invalid one included.
C25_ProcedureAllOrNothing ==
    (/\ Applied("parse")
     /\ fn_in.entity_data.entity_type = "procedure"
     /\ ValidPayload(fn_in)
     /\ \E n \in 1..Len(fn_in.value.m) : InvalidElement(fn_in.value.m[n])) =>
        /\ fn_out[1].alone.raised
        /\ fn_out[1].parsed.raised
        /\ fn_out[1].mcqs.v = <<>>

\* an array of a well-formed question followed by a number: no record
C25_Witness ==
    /\ Applied("parse")
    /\ fn_in.entity_data.entity_type = "procedure"
    /\ ValidPayload(fn_in)
    /\ Len(fn_in.value.m) = 2
    /\ WellFormed(fn_in.value.m[1])
    /\ fn_in.value.m[2].t = "num"
    /\ ~Holds(fn_in.prefix, P("["))
    /\ ~Holds(fn_in.suffix, P("]"))
    /\ fn_out[1].parsed.raised
    /\ fn_out[1].mcqs.v = <<>>

\* C27: every work item the extractor yields is of kind technique or
\* procedure, and those of a tactic are all of kind technique whatever type
\* their record declares; every record the parser emits has the kind of its
\* work item, whatever the reply says.
C27_KindComesFromTheWorkItem ==
    /\ (Applied("extract") /\ ~fn_out[1].raised) =>
         \A n \in 1..Len(fn_out[1].v) :
            /\ fn_out[1].v[n].entity_type \in {"technique", "procedure"}
            /\ ClassifiedAs(fn_in.x, "tactic") => fn_out[1].v[n].entity_type = "technique"
            /\ ClassifiedAs(fn_in.x, "technique") => fn_out[1].v[n].entity_type = "technique"
            /\ ClassifiedAs(fn_in.x, "procedure") => fn_out[1].v[n].entity_type = "procedure"
    /\ Applied("parse") =>
         /\ fn_in.entity_data.entity_type \in {"technique", "procedure"}
         /\ \A n \in 1..Len(fn_out[1].mcqs.v) :
              fn_out[1].mcqs.v[n].entity_type = fn_in.entity_data.entity_type

\* a tactic whose second child declares type procedure: two work items, both
\* of kind technique
C27_Witness ==
    /\ Applied("extract")
    /\ ClassifiedAs(fn_in.x, "tactic")
    /\ HasChildList(fn_in.x)
    /\ Len(ChildrenOf(fn_in.x)) = 2
    /\ Has(ChildrenOf(fn_in.x)[2], "type")
    /\ Item(ChildrenOf(fn_in.x)[2], "type") = JStr("procedure")
    /\ ~fn_out[1].raised
    /\ Len(fn_out[1].v) = 2
    /\ fn_out[1].v[2].entity_type = "technique"
    /\ fn_out[1].v[2].entity_id = JStr("P3")

\* a technique's reply holding "entity_type": "tactic": the record emitted is
\* of kind technique
C27_WitnessReply ==
    /\ Applied("parse")
    /\ fn_in.entity_data.entity_type = "technique"
    /\ fn_in.value.t = "obj"
    /\ Has(fn_in.value, "entity_type")
    /\ Len(fn_out[1].mcqs.v) = 1
    /\ fn_out[1].mcqs.v[1].entity_type = "technique"

\* C28: in the file written by save_mcqs_to_file every record's options object
\* has exactly the keys A, B, C, D in this order; the key at position n holds
\* the record's n-th option text, or "" when the record has fewer than n
\* options; options after the fourth are not written, and the keys of the
\* reply's options object appear nowhere.
C28_SavedOptionsAreRelabelled ==
    Applied("save") =>
        LET written == json_loads(fn_out[1].text) IN
        /\ written.ok
        /\ written.v.t = "arr"
        /\ Len(written.v.m) = Len(fn_in.mcqs)
        /\ \A n \in 1..Len(fn_in.mcqs) :
             LET options == Item(written.v.m[n], "options")
                 texts == fn_in.mcqs[n].options
             IN  /\ options.t = "obj"
                 /\ Keys(options) = <<"A", "B", "C", "D">>
                 /\ \A p \in 1..4 :
                      options.m[p].v = IF p <= Len(texts) THEN texts[p] ELSE JStr("")
                 /\ Item(written.v.m[n], "correct_answer") = fn_in.mcqs[n].correct_answer

\* a record with three options, then one built from a reply whose options were
\* labelled 1 to 4: the first is saved with "D": "", the second under A to D
C28_Witness ==
    /\ Applied("save")
    /\ Len(fn_in.mcqs) = 2
    /\ Len(fn_in.mcqs[1].options) = 3
    /\ fn_in.mcqs[2].options = <<JStr("text-1"), JStr("text-2"), JStr("text-3"), JStr("text-4")>>
    /\ LET written == json_loads(fn_out[1].text) IN
       /\ written.ok
       /\ Item(Item(written.v.m[1], "options"), "D") = JStr("")
       /\ Item(Item(written.v.m[2], "options"), "B") = JStr("text-2")
       /\ Item(written.v.m[2], "correct_answer") = JStr("2")

\* a record with five options: only the first four are in the file
C28_WitnessFive ==
    /\ Applied("save")
    /\ Len(fn_in.mcqs) = 1
    /\ Len(fn_in.mcqs[1].options) = 5
    /\ LET written == json_loads(fn_out[1].text) IN
       /\ written.ok
       /\ Len(Item(written.v.m[1], "options").m) = 4
       /\ Item(Item(written.v.m[1], "options"), "D") = JStr("text-D")

---------------------------------------------------------------------------
(* Properties of the question answerer (SpecFn) *)

UppercaseLetters ==
    {"A", "B", "C", "D", "E", "F", "G", "H", "I", "J", "K", "L", "M",
     "N", "O", "P", "Q", "R", "S", "T", "U", "V", "W", "X", "Y", "Z"}

\* the positions of the alphabetic characters of a reply
LettersOf(content) == {n \in 1..Len(content) : isalpha(content[n])}

FirstLetter(content) ==
    content[CHOOSE n \in LettersOf(content) : \A k \in LettersOf(content) : n <= k]

\* C30: get_answer_from_model never raises; it returns ERROR when the call
\* fails, UNKNOWN when the reply has no alphabetic character, and otherwise
\* the upper-casing of the first alphabetic character of the reply, which is
\* a single uppercase letter.
C30_AnswerIsLetterUnknownOrError ==
    Applied("answer") =>
        LET out == fn_out[1].answer IN
        /\ ~out.raised
        /\ fn_in.outcome.kind = "raise" => out.v = ERROR
        /\ fn_in.outcome.kind = "text" =>
             IF LettersOf(fn_in.outcome.content) = {}
             THEN out.v = UNKNOWN
             ELSE /\ out.v = upper(FirstLetter(fn_in.outcome.content))
                  /\ Len(out.v) = 1
                  /\ out.v[1] \in UppercaseLetters

\* get_answer_from_model never raises, whatever the call did, and answers
\* ERROR, UNKNOWN or the upper-casing of the first alphabetic character
C30_AnswerNeverRaises ==
    Applied("answer") =>
        LET out == fn_out[1].answer IN
        /\ ~out.raised
        /\ fn_in.outcome.kind # "text" => out.v = ERROR /\ fn_out[1].printed
        /\ fn_in.outcome.kind = "text" =>
             /\ ~fn_out[1].printed
             /\ out.v = IF LettersOf(fn_in.outcome.content) = {} THEN UNKNOWN
                        ELSE upper(FirstLetter(fn_in.outcome.content))

\* the reply is a sharp s: the answer is the two characters SS
C30_WitnessTwoLetters ==
    /\ Applied("answer")
    /\ fn_in.outcome = CompletionText(<<"U+00DF">>)
    /\ fn_out[1].answer = Return(<<"S", "S">>)

\* the reply is an ideograph and a letter: the answer is the ideograph
C30_WitnessNoCase ==
    /\ Applied("answer")
    /\ fn_in.outcome = CompletionText(<<"U+4E2D", "B">>)
    /\ fn_out[1].answer = Return(<<"U+4E2D">>)

\* process_questions on questions that have their text and their options:
\* one result per question, in input order, each the question with one answer
\* per model, the answer of that model's call
C30_OneAnswerPerModelPerQuestion ==
    (Applied("process") /\ \A n \in 1..Len(fn_in.questions) :
                              ~question_raises(fn_in.questions[n])) =>
        LET out == fn_out[1] IN
        /\ ~out.raised
        /\ Len(out.v) = Len(fn_in.questions)
        /\ out.calls = Len(fn_in.questions) * Len(Models)
        /\ \A n \in 1..Len(out.v) :
             /\ \A k \in 1..Len(fn_in.questions[n].m) :
                  out.v[n].m[k] = fn_in.questions[n].m[k]
             /\ Keys(out.v[n]) = Keys(fn_in.questions[n]) \o <<"answers">>
             /\ Keys(Item(out.v[n], "answers")) = Models
             /\ \A m \in 1..Len(Models) :
                  Item(Item(out.v[n], "answers"), Models[m]).s
                    = get_answer_from_model(fn_in.outcomes[(n - 1) * Len(Models) + m]).v

\* two questions answered: a letter, a failure, no letter, a letter
C30_WitnessProcessed ==
    /\ Applied("process")
    /\ Len(fn_in.questions) = 2
    /\ fn_in.questions[1] # fn_in.questions[2]
    /\ ~fn_out[1].raised
    /\ Len(fn_out[1].v) = 2
    /\ Item(Item(fn_out[1].v[1], "answers"), "gpt-4o").s = <<"A">>
    /\ Item(Item(fn_out[1].v[1], "answers"), "gpt-4o-mini").s = ERROR
    /\ Item(Item(fn_out[1].v[2], "answers"), "gpt-4o").s = UNKNOWN

\* a question without its options: process_questions raises after the calls
\* of the questions before it
C30_WitnessQuestionRaises ==
    /\ Applied("process")
    /\ Len(fn_in.questions) = 2
    /\ ~question_raises(fn_in.questions[1])
    /\ question_raises(fn_in.questions[2])
    /\ fn_out[1].raised
    /\ fn_out[1].calls = Len(Models)

---------------------------------------------------------------------------
(* Properties of a run that rest on the classifier and the extractor *)

\* the records of the input: the single record, or the elements of the list
InputRecords == IF json_data.t = "arr" THEN json_data.m ELSE <<json_data>>

\* the input record a history or origin tag comes from
RecordOf(tag) == IF json_data.t = "arr" THEN json_data.m[tag.item] ELSE json_data

\* a record classified as tactic whose 'technique' member is absent or empty
ChildlessTactic(data) ==
    /\ data.t = "obj"
    /\ ClassifiedAs(data, "tactic")
    /\ HasChildList(data)
    /\ ChildrenOf(data) = <<>>

\* C22: a tactic with no child technique gives no work item and no exception:
\* no call is made and no record emitted for it, the run does not end in an
\* error while it is the current record, and a run on it alone returns an
\* empty result.
C22_ChildlessTacticYieldsNothing ==
    /\ \A k \in 1..Len(InputRecords) :
         ChildlessTactic(InputRecords[k]) =>
            LET found == extract_entities_from_json(InputRecords[k]) IN
            ~found.raised /\ found.v = <<>>
    /\ \A n \in 1..Len(hist) : ~ChildlessTactic(RecordOf(hist[n]))
    /\ \A n \in 1..Len(origin) : ~ChildlessTactic(RecordOf(origin[n]))
    /\ (json_data.t = "arr" /\ i >= 1 /\ ChildlessTactic(json_data.m[i])) =>
         /\ pc \in {"loop", "finish", "returned", "done"}
         /\ entities = <<>>
    /\ (json_data.t = "obj" /\ ChildlessTactic(json_data)) =>
         /\ pc \in {"load", "finish", "returned", "done"}
         /\ calls = 0
         /\ all_mcqs = <<>>

\* a list of a tactic with an empty technique list and a technique: the run
\* returned after one call, for the second record, with its one record
C22_Witness ==
    /\ json_data = JArr(<<EmptyTacticRecord, TechniqueRecord>>)
    /\ result.returned
    /\ calls = 1
    /\ Len(hist) = 1
    /\ hist[1].item = 2
    /\ Len(result.mcqs) = 1
    /\ origin[1].item = 2

\* a tactic without a technique member, on its own: an empty result, no call
C22_WitnessAlone ==
    /\ json_data = BareTacticRecord
    /\ result.returned
    /\ calls = 0
    /\ result.mcqs = <<>>

\* the output file exists only once the run has processed every work item
\* and returned, and holds the whole result
SavedOnlyAtTheEnd ==
    /\ Len(saved) <= 1
    /\ Len(saved) = 1 =>
         /\ result.returned
         /\ Processed = WorkItems
         /\ \A k \in 1..Len(InputRecords) : ~extract_entities_from_json(InputRecords[k]).raised
         /\ saved[1] = save_mcqs_to_file(result.mcqs)
         /\ result.mcqs = all_mcqs
    /\ (pc = "error" /\ abort # "report") => saved = <<>>
    /\ ~result.returned => saved = <<>>

\* C29: the output file is written in one step only, the one in which the run
\* returns, after every work item of every record has been processed, and is
\* never written again; a run ended by an exception before that has written
\* nothing, whatever records it had collected.
C29_FileWrittenOnceAtTheEnd ==
    /\ []SavedOnlyAtTheEnd
    /\ [][saved' # saved => (saved = <<>> /\ ~result.returned /\ result'.returned)]_vars

\* a list of a technique, a string and a technique: the run ended in an error
\* at the string with one record collected and no file written
C29_Witness ==
    /\ json_data = JArr(<<TechniqueRecord, JunkRecord, TechniqueRecord>>)
    /\ pc = "error"
    /\ abort = "extract"
    /\ Len(all_mcqs) = 1
    /\ saved = <<>>
    /\ ~result.returned

\* a run that returned: the file holds the two records of the result
C29_WitnessWritten ==
    /\ result.returned
    /\ Len(result.mcqs) = 2
    /\ saved = <<save_mcqs_to_file(result.mcqs)>>

===========================================================================
